---- MODULE Spec2Model ----
(***************************************************************************)
(* TISM ("The Incredible State Machine"): a cooperative dual-core          *)
(* scheduler for the RP2040, its circular-buffer messaging, Postman and    *)
(* TaskManager.                                                            *)
(*                                                                         *)
(* The module holds several specifications over one set of variables; a    *)
(* specification leaves the variables of the other parts unchanged.        *)
(*   SpecRing : one circular buffer, one producer and one consumer that    *)
(*              run concurrently (TISM_messaging.c).                       *)
(*   Spec     : the two instances of TISM_Scheduler, one per core, with    *)
(*              the system tasks and user tasks that send no messages.     *)
(*   SpecDown : Spec, and the first user task asks TaskManager once for    *)
(*              the system state DOWN.                                     *)
(*   SpecMsg  : the scheduler of core 0 alone; the user tasks send         *)
(*              messages and the subscribed interrupt fires.               *)
(*   SpecPost : one bypass of Postman and TaskManager after a task has     *)
(*              returned with messages in the outbound queues; SpecFull    *)
(*              and SpecStray start it with filled mailboxes.              *)
(*   SpecDeliver : Postman and a sender at work on one outbound queue.     *)
(*   SpecTimer : the software timers (TISM_SoftwareTimer.c).               *)
(*   SpecIrq  : the subscriptions of TISM_IRQHandler.                      *)
(* The scheduler modelled is the one with                                  *)
(* TISM_SchedulerRunTaskUnconditionally (src/TaskTemplate.c, lines 103 to  *)
(* 527).                                                                   *)
(***************************************************************************)
EXTENDS Integers, Sequences, FiniteSets, TLC

(***************************************************************************)
(* Bounds of the model.                                                    *)
(***************************************************************************)
\* Length of a circular buffer (MAX_MESSAGES in TISM.h is 50 or 150; the
\* model runs the same code on a short buffer).
MAX_MESSAGES == 3
\* Number of records the producer of SpecRing offers; its consumer stops after
\* one pop more than that.
MaxWrites == 4

UINT16 == 65536
UINT8 == 256

\* Number of user tasks registered after the five TISM entries.
NumberOfUserTasks == 2
\* Scheduling periods and the start-up delay, in units of model time; in
\* TISM.h they are 50000, 100000 and 500000 microseconds and 5000 ms.
PRIORITY_HIGH == 1
PRIORITY_NORMAL == 2
PRIORITY_LOW == 3
STARTUP_DELAY == 1
\* The clock stops advancing at MaxTime.
MaxTime == 2
\* Number of messages the user tasks send, and of interrupts that fire.
MaxSends == 2
MaxIrqs == 1
\* The sequence counter of the software timers at which the tasks stop
\* setting timers, and the number of timer ids a task uses.
MaxSets == 2
NumberOfTimerIDs == 1
\* The tasks set no timer while entries, requests in the queue of the timer
\* task and calls in progress add up to MaxTimers.
MaxTimers == 2
\* The timer intervals the tasks ask for, in milliseconds: a short one, and
\* one of about 71.6 minutes.
ShortInterval == 1
LongInterval == 4294968
\* The microsecond clock of the timers advances by TickUsec up to MaxClock.
TickUsec == 500
MaxClock == 1000
\* ... and, where the timers are followed past their deadlines, up to LiveClock
LiveClock == 2000
\* The largest anti-bounce timeout of a subscription.
MaxAntiBounce == 0
\* The anti-bounce model: the clock reads BootTime when the first task
\* subscribes and advances up to MaxIrqClock; the windows are 1 .. MaxWindow.
BootTime == 1
MaxIrqClock == 5
MaxWindow == 2
\* Number of interrupts that are captured.
MaxCaptures == 3
\* Number of interrupt callbacks that write to the interrupt queue.
MaxCallbacks == 2
\* The hosts that send subscription requests are HOSTID .. MaxHosts.
MaxHosts == 2
\* The watchdog: a round every CheckInterval units of time, a reply is late
\* after TaskTimeout units, and the payload counter wraps at MaxPingCounter.
CheckInterval == 3
TaskTimeout == 1
MaxPingCounter == 3
\* The start times are staggered for tables of 1 .. MaxStaggerTasks tasks.
MaxStaggerTasks == 4
\* MAX_TASKS: the size of System.Task[]
MAX_TASKS == 7

(***************************************************************************)
(* Part 1: the circular buffer (TISM_messaging.c)                          *)
(***************************************************************************)
VARIABLES
  BufHead,    \* Buffer->Head, written by the producer only
  BufTail,    \* Buffer->Tail, written by the consumer only
  Message,    \* Buffer->Message[0..MAX_MESSAGES-1], a record of two fields
  ppc,        \* producer: where it is in TISM_CircularBufferWriteWithTimestamp
  cpc,        \* consumer: where it is in TISM_CircularBufferRead / Delete
  nextVal,    \* the next record the producer offers (1, 2, 3, ...)
  lastWrite,  \* result of the last completed write: "none", "ok", "full"
  got,        \* the record the consumer's last successful Read returned
  written,    \* ghost: records completely stored by the producer, in order
  popped,     \* ghost: records obtained by successful Read + Delete, in order
  unread,     \* ghost: slots that hold a stored record not yet passed by Tail
  overwrote   \* ghost: the producer stored into a slot that was unread

ringVars == <<BufHead, BufTail, Message, ppc, cpc, nextVal, lastWrite,
              got, written, popped, unread, overwrote>>

VARIABLES
  State,            \* System.State
  RunPointer,       \* System.RunPointer[core]
  TaskState,        \* System.Task[t].TaskState
  TaskSleeping,     \* System.Task[t].TaskSleeping
  TaskWakeUpTimer,  \* System.Task[t].TaskWakeUpTimer
  OutboundMessageQueue,   \* per core: messages written by the running task
  InboundMessageQueue,    \* per task: its mailbox
  IRQHandlerInboundQueue, \* interrupts written by TISM_IRQHandlerCallback
  TaskReceivedMessage,    \* TISM_PostmanData.TaskReceivedMessage (a set)
  Subscriptions,    \* tasks subscribed to the GPIO of the model
  now,              \* time_us_64(), in units of model time
  pc,               \* per core: position in TISM_Scheduler / RunTask
  ret,              \* per core: where a task invocation returns to
  bypass,           \* per core: tasks still to run in the current bypass
  bret,             \* per core: where the bypass continues
  RunPriority,      \* per core: TISM_Scheduler's local RunPriority
  PreviousRunPointer, \* per core: TISM_Scheduler's local
  CurrentRunPointer,  \* per core: TISM_SchedulerRunTask's local
  TaskCounter,      \* core 0: loop counter of the INIT and STOP passes
  ThisTask,         \* per core: the copy of the task struct the task got
  rv,               \* per core: value the last task invocation returned
  sends,            \* number of messages user tasks have sent
  irqs,             \* number of interrupts that have fired
  warned,           \* ghost: messages Postman reported as undeliverable
  stopRuns,         \* ghost: per task, invocations with task state STOP
  otherRan,         \* ghost: per core, the other core ran the task this
                    \* core selected in its walk, since it selected it
                    \* and at the present time
  completed,        \* ghost: per core, the time at which the task this
                    \* core selected in its walk returned
  ahead,            \* ghost: messages Postman is to handle before TrackedMsg
  considered,       \* ghost: per core and task, times the task passed the
                    \* priority filter in the current priority cycle
  inCycle,          \* ghost: per core, "none" or the pass of the cycle
  initRv,           \* ghost: per task, what its INIT invocation returned
  arrived,          \* ghost: ids of the records a mailbox accepted from
                    \* Postman, in the order of their arrival
  call,             \* ghost: the call of TISM_TaskManagerSetTaskAttribute
                    \* or TISM_RegisterTask made last, with what it returned
  started,          \* ghost: per task, the time TISM_SchedulerRunTask
                    \* started it last, unset once a task function has
                    \* changed its sleeping flag or wake-up time
  gap,              \* ghost: per task, the time between its two last
                    \* starts when started was set at the second
  SystemReadyPort,  \* the level of the output SYSTEM_READY_PORT
  SystemNumberOfTasks, \* System.NumberOfTasks as TISM_RegisterTask keeps it
  SystemTask,       \* System.Task[] as TISM_RegisterTask writes it
  watched,          \* ghost: the tasks whose starts are recorded
  TaskOutboundMessageQueue, \* System.Task[t].OutboundMessageQueue and
                    \* RunningOnCoreID, written together: a core
  stopOrder         \* ghost: the tasks the STOP pass has invoked, with the
                    \* task state each was invoked with, in order

schedVars == <<State, RunPointer, TaskState, TaskSleeping, TaskWakeUpTimer,
               OutboundMessageQueue, InboundMessageQueue,
               IRQHandlerInboundQueue, TaskReceivedMessage, Subscriptions,
               now, pc, ret, bypass, bret, RunPriority, PreviousRunPointer,
               CurrentRunPointer, TaskCounter, ThisTask, rv, sends, irqs,
               warned, stopRuns, otherRan, completed, ahead, considered,
               inCycle, initRv, arrived, call, started, gap,
               SystemReadyPort, SystemNumberOfTasks, SystemTask, watched,
               TaskOutboundMessageQueue, stopOrder>>

VARIABLES
  Entries,          \* TISM_SoftwareTimerData.Entries: the linear list,
                    \* first entry first
  SequenceCounter,  \* TISM_SoftwareTimerData.SequenceCounter
  time_us_64,       \* the microsecond clock the timer code reads
  TimerInbox,       \* the inbound queue of the TISM_SoftwareTimer task
  TimerWakeUp,      \* System.Task[SoftwareTimer].TaskWakeUpTimer
  TimerSleeping,    \* System.Task[SoftwareTimer].TaskSleeping
  setpc,            \* per core: position of the task in TISM_SoftwareTimerSet
  setreg,           \* per core: the counter value the increment has loaded
  held,             \* sequence numbers TISM_SoftwareTimerSet has returned
  notified,         \* notifications the timer task has written, in order
  cancelled,        \* ghost: sequence numbers of the cancellations processed
  examined,         \* ghost: sequence numbers the last scan has looked at
  scanned           \* ghost: the list as the last scan found it

timerVars == <<Entries, SequenceCounter, time_us_64, TimerInbox, TimerWakeUp,
               TimerSleeping, setpc, setreg, held, notified, cancelled, examined, scanned>>

VARIABLES
  GPIO,             \* TISM_IRQHandlerData.GPIO[]: Initialized, EventMask and
                    \* the list of subscriptions, first record first
  request,          \* the subscription message TISM_IRQHandler processed last
  fault,            \* a store through a NULL pointer has happened
  IrqInbound,       \* IRQHandlerInboundQueue with the time stamps of its
                    \* records (part 2 holds the queue without them)
  irqClock,         \* time_us_64() as TISM_IRQHandlerCallback reads it
  captured,         \* ghost: the interrupts the queue has accepted
  forwarded         \* the messages TISM_IRQHandler wrote for subscribers

irqVars == <<GPIO, request, fault, IrqInbound, irqClock, captured, forwarded>>

VARIABLES
  DataRequestSent,    \* TISM_WatchdogData.DataRequestSent[]: the payload of the
                      \* last PING sent to a task, -1 when none was sent
  RequestAge,         \* time_us_64()-TISM_WatchdogData.TimeRequestSent[] of a
                      \* task, counted up to WATCHDOG_TASK_TIMEOUT+1
  PingMessageCounter, \* TISM_WatchdogData.PingMessageCounter
  PingRoundDue,       \* TISM_WatchdogData.NextPingRound-time_us_64(), 0 when
                      \* the round is due
  WatchdogInbound,    \* the inbound queue of TISM_Watchdog
  PingInbound,        \* the PING messages in the inbound queue of each task
  WatchdogLog,        \* the errors TISM_Watchdog handed to the event logger
  Silent,             \* the tasks that do not answer a PING
  pinged              \* ghost: the tasks a PING was sent to

watchVars == <<DataRequestSent, RequestAge, PingMessageCounter, PingRoundDue,
               WatchdogInbound, PingInbound, WatchdogLog, Silent, pinged>>

vars == <<ringVars, schedVars, timerVars, irqVars, watchVars>>

Slots == 0 .. (MAX_MESSAGES - 1)
EmptyRecord == [id |-> 0, payload |-> 0]

\* mutant of MessagesWaiting: a Head that has wrapped around is taken for
\* an empty buffer
MessagesWaitingNoWrap(h, t) == IF h > t THEN h - t ELSE 0

\* TISM_CircularBufferMessagesWaiting
MessagesWaiting(h, t) ==
  IF h # t THEN (IF h > t THEN h - t ELSE (MAX_MESSAGES - t) + h) ELSE 0

SlotsAvailableNoSentinel(h, t) == (MAX_MESSAGES - MessagesWaiting(h, t)) % UINT16

\* TISM_CircularBufferSlotsAvailable (the result is a uint16_t)
SlotsAvailable(h, t) == (MAX_MESSAGES - MessagesWaiting(h, t) - 1) % UINT16

RingInit ==
  /\ BufHead = 0
  /\ BufTail = 0
  /\ Message = [i \in Slots |-> EmptyRecord]
  /\ ppc = "idle"
  /\ cpc = "idle"
  /\ nextVal = 1
  /\ lastWrite = "none"
  /\ got = EmptyRecord
  /\ written = <<>>
  /\ popped = <<>>
  /\ unread = {}
  /\ overwrote = FALSE

\* Write: "if(TISM_CircularBufferSlotsAvailable(Buffer)>0)", a slot is free.
WriteCheckFree ==
  /\ ppc = "idle"
  /\ nextVal <= MaxWrites
  /\ SlotsAvailable(BufHead, BufTail) > 0
  /\ ppc' = "fill1"
  /\ lastWrite' = "none"
  /\ UNCHANGED <<schedVars, timerVars, irqVars, watchVars, BufHead, BufTail, Message, cpc, nextVal, got, written,
                 popped, unread, overwrote>>

\* Write: no slot is free, "return(false)".
WriteCheckFull ==
  /\ ppc = "idle"
  /\ nextVal <= MaxWrites
  /\ SlotsAvailable(BufHead, BufTail) = 0
  /\ lastWrite' = "full"
  /\ nextVal' = nextVal + 1
  /\ UNCHANGED <<schedVars, timerVars, irqVars, watchVars, BufHead, BufTail, Message, ppc, cpc, got, written, popped, unread,
                 overwrote>>

\* Write: the first fields of Buffer->Message[Buffer->Head] are stored.
WriteFill1 ==
  /\ ppc = "fill1"
  /\ Message' = [Message EXCEPT ![BufHead].id = nextVal]
  /\ overwrote' = (overwrote \/ BufHead \in unread)
  /\ ppc' = "fill2"
  /\ UNCHANGED <<schedVars, timerVars, irqVars, watchVars, BufHead, BufTail, cpc, nextVal, lastWrite, got, written,
                 popped, unread>>

\* Write: the remaining fields are stored; the record is complete.
WriteFill2 ==
  /\ ppc = "fill2"
  /\ Message' = [Message EXCEPT ![BufHead].payload = nextVal]
  /\ written' = Append(written, nextVal)
  /\ unread' = unread \cup {BufHead}
  /\ ppc' = "inc"
  /\ UNCHANGED <<schedVars, timerVars, irqVars, watchVars, BufHead, BufTail, cpc, nextVal, lastWrite, got, popped,
                 overwrote>>

\* Write: "Buffer->Head++;"
WriteInc ==
  /\ ppc = "inc"
  /\ BufHead' = BufHead + 1
  /\ ppc' = "wrap"
  /\ UNCHANGED <<schedVars, timerVars, irqVars, watchVars, BufTail, Message, cpc, nextVal, lastWrite, got,
                 written, popped, unread, overwrote>>

\* Write: "if(Buffer->Head==MAX_MESSAGES) Buffer->Head=0;" and "return(true)".
WriteWrap ==
  /\ ppc = "wrap"
  /\ BufHead' = IF BufHead = MAX_MESSAGES THEN 0 ELSE BufHead
  /\ ppc' = "idle"
  /\ lastWrite' = "ok"
  /\ nextVal' = nextVal + 1
  /\ UNCHANGED <<schedVars, timerVars, irqVars, watchVars, BufTail, Message, cpc, got, written, popped, unread,
                 overwrote>>

\* TISM_CircularBufferRead: a message is waiting, the slot at Tail is returned.
ReadSome ==
  /\ cpc = "idle"
  /\ Len(popped) <= MaxWrites
  /\ MessagesWaiting(BufHead, BufTail) # 0
  /\ got' = Message[BufTail]
  /\ cpc' = "delete"
  /\ UNCHANGED <<schedVars, timerVars, irqVars, watchVars, BufHead, BufTail, Message, ppc, nextVal, lastWrite,
                 written, popped, unread, overwrote>>

\* TISM_CircularBufferDelete: "Buffer->Tail++;" when a message is waiting.
DeleteInc ==
  /\ cpc = "delete"
  /\ IF MessagesWaiting(BufHead, BufTail) > 0
       THEN /\ BufTail' = BufTail + 1
            /\ popped' = Append(popped, got)
            /\ unread' = unread \ {BufTail}
            /\ cpc' = "wrap"
       ELSE /\ cpc' = "idle"
            /\ UNCHANGED <<schedVars, timerVars, irqVars, watchVars, BufTail, popped, unread>>
  /\ UNCHANGED <<schedVars, timerVars, irqVars, watchVars, BufHead, Message, ppc, nextVal, lastWrite, got,
                 written, overwrote>>

\* TISM_CircularBufferDelete: "if(Buffer->Tail==MAX_MESSAGES) Buffer->Tail=0;"
DeleteWrap ==
  /\ cpc = "wrap"
  /\ BufTail' = IF BufTail = MAX_MESSAGES THEN 0 ELSE BufTail
  /\ cpc' = "idle"
  /\ UNCHANGED <<schedVars, timerVars, irqVars, watchVars, BufHead, Message, ppc, nextVal, lastWrite, got,
                 written, popped, unread, overwrote>>

RingNext ==
  \/ WriteCheckFree
  \/ WriteCheckFull
  \/ WriteFill1
  \/ WriteFill2
  \/ WriteInc
  \/ WriteWrap
  \/ ReadSome
  \/ DeleteInc
  \/ DeleteWrap

(***************************************************************************)
(* Part 2: the scheduler (TISM_Scheduler.c), TISM_Postman, TISM_TaskManager *)
(* and the tasks.  The message queues of this part are sequences: a queue  *)
(* of length n is a circular buffer with Head - Tail = n, and its          *)
(* operations are atomic here (SpecRing looks inside them).                *)
(***************************************************************************)
DOWN == 0
STOP == 1
RUN == 2
INIT == 3
OK == 0
ERR_RUNNING_TASK == 7
CORE0 == 0
CORE1 == 1
Cores == {CORE0, CORE1}
OtherCore(c) == 1 - c
QUEUE_RUN_ASCENDING == 1
QUEUE_RUN_DESCENDING == -1
\* "System.RunPointer[counter]=255": the pointer is not in use
NoTask == 255

\* Task ids in the order of registration in TISM_InitializeSystem (watchdog
\* and software timer disabled); id 0 is the dummy entry of the scheduler.
TISM_EventLoggerTaskID == 1
TISM_PostmanTaskID == 2
TISM_IRQHandlerTaskID == 3
TISM_TaskManagerTaskID == 4
FirstUserTask == 5
NumberOfTasks == FirstUserTask + NumberOfUserTasks
TaskIDs == 0 .. (NumberOfTasks - 1)
UserTasks == FirstUserTask .. (NumberOfTasks - 1)

\* TISM_IsSystemTask: the task name starts with "TISM_"
IsSystemTask(t) == t < FirstUserTask
\* mutant of IsValidTaskID: the last task is taken for invalid
IsValidTaskIDOffByOne(t) == t >= 0 /\ t < NumberOfTasks - 1
\* TISM_IsValidTaskID
IsValidTaskID(t) == t >= 0 /\ t < NumberOfTasks

\* The priority a task is registered with: the TISM tasks as in
\* TISM_InitializeSystem, the user tasks high, normal, low, high, ...
TaskPriority(t) ==
  IF t = 0 THEN PRIORITY_HIGH
  ELSE IF IsSystemTask(t) THEN PRIORITY_LOW
  ELSE IF (t - FirstUserTask) % 3 = 0 THEN PRIORITY_HIGH
  ELSE IF (t - FirstUserTask) % 3 = 1 THEN PRIORITY_NORMAL
  ELSE PRIORITY_LOW

\* System.RunPointerDirection
RunPointerDirection(c) ==
  IF c % 2 = 0 THEN QUEUE_RUN_ASCENDING ELSE QUEUE_RUN_DESCENDING

\* The task struct a task function is called with; TaskID = NoTask when the
\* core is not inside a task function.
NoThisTask == [TaskID |-> NoTask, TaskState |-> DOWN, OutboundMessageQueue |-> CORE0]

\* A message record (struct TISM_Message)
Msg(from, to, type, message, specification) ==
  [SenderTaskID |-> from, RecipientTaskID |-> to, MessageType |-> type,
   Message |-> message, Specification |-> specification]

\* TISM_CircularBufferWrite on a queue held as a sequence
BufferWrite(q, m) ==
  IF SlotsAvailable(Len(q), 0) > 0 THEN Append(q, m) ELSE q

\* The shared data a task function works on
World ==
  [State |-> State, TaskState |-> TaskState, TaskSleeping |-> TaskSleeping,
   TaskWakeUpTimer |-> TaskWakeUpTimer, out |-> OutboundMessageQueue,
   inb |-> InboundMessageQueue, irq |-> IRQHandlerInboundQueue,
   recv |-> TaskReceivedMessage, sub |-> Subscriptions, warned |-> warned,
   cnt |-> 0]

\* TISM_PostmanWriteMessage by a task whose struct is tt
PostmanWriteMessage(w, tt, to, type, message, specification) ==
  [w EXCEPT !.out[tt.OutboundMessageQueue] =
     BufferWrite(@, Msg(tt.TaskID, to, type, message, specification))]

ERR_TASK_NOT_FOUND == 5
ERR_INVALID_OPERATION == 8

\* The values of AttributeToChange TISM_TaskManagerSetTaskAttribute knows
GuardedAttributes == {"SET_TASK_WAKEUPTIME", "SET_TASK_PRIORITY", "SET_TASK_SLEEP"}
Attributes ==
  GuardedAttributes
    \cup {"DEDICATE_TO_TASK", "WAKE_ALL_TASKS", "SET_TASK_STATE", "SET_TASK_DEBUG"}

\* The branches of TISM_TaskManagerSetTaskAttribute that return
\* ERR_INVALID_OPERATION after a message to the event logger
AttributeRefused(tt, target, attribute) ==
  \/ attribute \in GuardedAttributes /\ IsSystemTask(target)
       /\ ~IsSystemTask(tt.TaskID)
  \/ attribute = "DEDICATE_TO_TASK" /\ IsSystemTask(target)
  \/ attribute \notin Attributes

\* mutant of SetTaskAttribute: every request for a valid task is forwarded
SetTaskAttributeForward(w, tt, target, attribute, setting) ==
  IF ~IsValidTaskID(target) THEN w
  ELSE PostmanWriteMessage(w, tt, TISM_TaskManagerTaskID, attribute, setting, target)

\* TISM_TaskManagerSetTaskAttribute, what it writes;
\* TISM_TaskManagerSetMyTaskAttribute is the case target = tt.TaskID
SetTaskAttribute(w, tt, target, attribute, setting) ==
  IF ~IsValidTaskID(target) THEN w
  ELSE IF AttributeRefused(tt, target, attribute)
    THEN PostmanWriteMessage(w, tt, TISM_EventLoggerTaskID, "LOG_EVENT_ERROR", 0, 0)
  ELSE PostmanWriteMessage(w, tt, TISM_TaskManagerTaskID, attribute, setting, target)

\* TISM_TaskManagerSetTaskAttribute, what it returns
SetTaskAttributeReturn(tt, target, attribute) ==
  IF ~IsValidTaskID(target) THEN ERR_TASK_NOT_FOUND
  ELSE IF AttributeRefused(tt, target, attribute) THEN ERR_INVALID_OPERATION
  ELSE OK

\* No call has been made
NoCall == [op |-> "none"]

ERR_TOO_MANY_TASKS == 1

\* An entry of System.Task[] no registration has written
NoEntry == [TaskID |-> NoTask]
\* The entry TISM_RegisterTask writes for a task of the given priority
NewTask(id, priority) ==
  [TaskID |-> id, TaskState |-> INIT, TaskPriority |-> priority,
   TaskWakeUpTimer |-> 0, TaskSleeping |-> FALSE]
\* System.Task[] after the registration of tasks 0 .. n - 1
RegisteredTasks(n) ==
  [i \in 0 .. (MAX_TASKS - 1) |->
     IF i < n THEN NewTask(i, TaskPriority(i)) ELSE NoEntry]

(***************************************************************************)
(* The task functions.  Each maps the shared data w to the shared data     *)
(* after one invocation; tt is the task struct the function is called      *)
(* with.  w.cnt is the local MessageCounter.                               *)
(***************************************************************************)

\* Any task: "while(MessagesWaiting(ThisTask)>0 && MessageCounter<MAX_MESSAGES)"
\* over its own mailbox, for messages the task ignores
RECURSIVE DrainOwnInbox(_, _)
DrainOwnInbox(w, t) ==
  IF Len(w.inb[t]) > 0 /\ w.cnt < MAX_MESSAGES
    THEN DrainOwnInbox([w EXCEPT !.inb[t] = Tail(@), !.cnt = @ + 1], t)
    ELSE w

\* mutant of PostmanDrainCore: a record that is refused stays in the
\* outbound queue and ends the loop
RECURSIVE PostmanDrainCoreKeepsRefused(_, _)
PostmanDrainCoreKeepsRefused(w, CoreCounter) ==
  IF Len(w.out[CoreCounter]) > 0 /\ w.cnt < MAX_MESSAGES
    THEN LET m == Head(w.out[CoreCounter])
             to == m.RecipientTaskID
         IN IF IsValidTaskID(to) /\ ~(SlotsAvailable(Len(w.inb[to]), 0) > 0)
              THEN [w EXCEPT !.warned = @ \cup {m}]
              ELSE PostmanDrainCoreKeepsRefused(
                     [w EXCEPT !.inb = IF IsValidTaskID(to)
                                         THEN [@ EXCEPT ![to] = Append(@, m)]
                                         ELSE @,
                               !.recv = IF to # TISM_TaskManagerTaskID
                                          THEN @ \cup {to} ELSE @,
                               !.out[CoreCounter] = Tail(@),
                               !.cnt = @ + 1], CoreCounter)
    ELSE w

\* TISM_Postman, RUN: the loop over OutboundMessageQueue[CoreCounter]
RECURSIVE PostmanDrainCore(_, _)
PostmanDrainCore(w, CoreCounter) ==
  IF Len(w.out[CoreCounter]) > 0 /\ w.cnt < MAX_MESSAGES
    THEN LET m == Head(w.out[CoreCounter])
             to == m.RecipientTaskID
             refused == /\ IsValidTaskID(to)
                        /\ ~(SlotsAvailable(Len(w.inb[to]), 0) > 0)
             w1 == IF refused
                     THEN [w EXCEPT !.warned = @ \cup {m}]
                     ELSE [w EXCEPT
                             !.inb = IF IsValidTaskID(to)
                                       THEN [@ EXCEPT ![to] = Append(@, m)]
                                       ELSE @,
                             !.recv = IF to # TISM_TaskManagerTaskID
                                        THEN @ \cup {to} ELSE @]
         IN PostmanDrainCore([w1 EXCEPT !.out[CoreCounter] = Tail(@),
                                        !.cnt = @ + 1], CoreCounter)
    ELSE w

\* TISM_Postman, RUN: the wake-up requests to TaskManager, from task counter on
RECURSIVE PostmanWake(_, _)
PostmanWake(w, counter) ==
  IF counter < NumberOfTasks
    THEN PostmanWake(
           IF counter \in w.recv
             THEN [w EXCEPT
                     !.inb[TISM_TaskManagerTaskID] =
                        BufferWrite(@, Msg(TISM_PostmanTaskID, TISM_TaskManagerTaskID,
                                           "SET_TASK_SLEEP", 0, counter)),
                     !.recv = @ \ {counter}]
             ELSE w,
           counter + 1)
    ELSE w

\* TISM_Postman
TISM_Postman(w, tt) ==
  IF tt.TaskState = INIT THEN [w EXCEPT !.recv = {}]
  ELSE IF tt.TaskState = RUN
    THEN LET w1 == DrainOwnInbox(w, TISM_PostmanTaskID)
             w2 == PostmanDrainCore(w1, CORE0)
             w3 == PostmanDrainCore(w2, CORE1)
             w4 == PostmanWake(w3, 0)
         IN [w4 EXCEPT !.TaskSleeping[TISM_PostmanTaskID] = TRUE]
  ELSE IF tt.TaskState = STOP
    THEN [w EXCEPT !.TaskState[TISM_PostmanTaskID] = DOWN]
  ELSE w

\* TISM_TaskManager, RUN: one message of its mailbox
TaskManagerProcess(w, tt, m, time) ==
  LET target == m.Specification % UINT8
  IN IF m.MessageType = "SET_TASK_SLEEP"
       THEN IF m.Message = 0
              THEN IF w.TaskSleeping[target]
                     THEN [w EXCEPT !.TaskSleeping[target] = FALSE,
                                    !.TaskWakeUpTimer[target] = time]
                     ELSE w
              ELSE [w EXCEPT !.TaskSleeping[target] = TRUE]
     ELSE IF m.MessageType = "SET_SYS_STATE"
       THEN [w EXCEPT !.State = m.Message % UINT8]
     ELSE IF m.MessageType = "SET_TASK_STATE"
       THEN [w EXCEPT !.TaskState[target] = m.Message % UINT8]
     ELSE IF m.MessageType = "SET_TASK_WAKEUPTIME"
       THEN [w EXCEPT !.TaskWakeUpTimer[target] = time + m.Message]
     ELSE IF m.MessageType = "WAKE_ALL_TASKS"
       THEN [w EXCEPT
               !.TaskWakeUpTimer =
                  [t \in TaskIDs |-> IF w.TaskSleeping[t] THEN time ELSE @[t]],
               !.TaskSleeping = [t \in TaskIDs |-> FALSE]]
     ELSE IF m.MessageType = "DEDICATE_TO_TASK"
       THEN IF ~w.TaskSleeping[m.Message % UINT8]
              THEN [w EXCEPT !.TaskSleeping =
                      [t \in TaskIDs |->
                         IF t # m.Message /\ ~IsSystemTask(t) THEN TRUE ELSE @[t]]]
              ELSE PostmanWriteMessage(w, tt, TISM_EventLoggerTaskID,
                                       "LOG_EVENT_ERROR", 0, 0)
     ELSE w

\* TISM_TaskManager, RUN: the loop over its mailbox
RECURSIVE TaskManagerLoop(_, _, _)
TaskManagerLoop(w, tt, time) ==
  IF Len(w.inb[TISM_TaskManagerTaskID]) > 0 /\ w.cnt < MAX_MESSAGES
    THEN TaskManagerLoop(
           [TaskManagerProcess(w, tt, Head(w.inb[TISM_TaskManagerTaskID]), time)
              EXCEPT !.inb[TISM_TaskManagerTaskID] = Tail(@), !.cnt = @ + 1],
           tt, time)
    ELSE w

\* TISM_TaskManager
TISM_TaskManager(w, tt, time) ==
  IF tt.TaskState = INIT
    THEN [w EXCEPT !.TaskSleeping[TISM_TaskManagerTaskID] = TRUE,
                   !.TaskSleeping[TISM_PostmanTaskID] = TRUE,
                   !.TaskSleeping[TISM_IRQHandlerTaskID] = TRUE]
  ELSE IF tt.TaskState = RUN
    THEN [TaskManagerLoop(w, tt, time) EXCEPT !.TaskSleeping[tt.TaskID] = TRUE]
  ELSE IF tt.TaskState = STOP
    THEN [w EXCEPT !.TaskState[tt.TaskID] = DOWN]
  ELSE w

\* TISM_EventLogger
TISM_EventLogger(w, tt) ==
  IF tt.TaskState = INIT
    THEN SetTaskAttribute(w, tt, tt.TaskID, "SET_TASK_SLEEP", 1)
  ELSE IF tt.TaskState = RUN
    THEN SetTaskAttribute(DrainOwnInbox(w, tt.TaskID), tt, tt.TaskID,
                          "SET_TASK_SLEEP", 1)
  ELSE IF tt.TaskState = STOP
    THEN SetTaskAttribute(w, tt, tt.TaskID, "SET_TASK_STATE", DOWN)
  ELSE w

\* TISM_IRQHandler, RUN: the loop over IRQHandlerInboundQueue; an interrupt
\* is forwarded to every subscribed task
RECURSIVE IRQForward(_, _, _)
IRQForward(w, tt, subs) ==
  IF subs = {} THEN w
  ELSE LET s == CHOOSE x \in subs : \A y \in subs : x <= y
       IN IRQForward(PostmanWriteMessage(w, tt, s, "GPIO", 1, 1), tt, subs \ {s})

RECURSIVE IRQLoop(_, _)
IRQLoop(w, tt) ==
  IF Len(w.irq) > 0 /\ w.cnt < MAX_MESSAGES
    THEN IRQLoop([IRQForward(w, tt, w.sub) EXCEPT !.irq = Tail(@), !.cnt = @ + 1], tt)
    ELSE w

\* TISM_IRQHandler, RUN: the loop over its mailbox (subscription requests)
RECURSIVE IRQSubscribeLoop(_)
IRQSubscribeLoop(w) ==
  IF Len(w.inb[TISM_IRQHandlerTaskID]) > 0 /\ w.cnt < MAX_MESSAGES
    THEN LET m == Head(w.inb[TISM_IRQHandlerTaskID])
         IN IRQSubscribeLoop(
              [w EXCEPT !.sub = IF m.MessageType = "GPIO"
                                  THEN @ \cup {m.SenderTaskID} ELSE @,
                        !.inb[TISM_IRQHandlerTaskID] = Tail(@),
                        !.cnt = @ + 1])
    ELSE w

\* TISM_IRQHandler
TISM_IRQHandler(w, tt) ==
  IF tt.TaskState = INIT
    THEN SetTaskAttribute([w EXCEPT !.irq = <<>>, !.sub = {}], tt, tt.TaskID,
                          "SET_TASK_SLEEP", 1)
  ELSE IF tt.TaskState = RUN
    THEN LET w1 == IRQLoop(w, tt)
             w2 == IRQSubscribeLoop([w1 EXCEPT !.cnt = 0])
         IN SetTaskAttribute(w2, tt, tt.TaskID, "SET_TASK_SLEEP", 1)
  ELSE IF tt.TaskState = STOP
    THEN SetTaskAttribute(w, tt, tt.TaskID, "SET_TASK_STATE", DOWN)
  ELSE w

\* What a user task does in one RUN invocation, after it has emptied its
\* mailbox as in TaskTemplate: nothing, return an error, send a message to a
\* user task, request a system state, or subscribe to the GPIO.
QuietActions == {[kind |-> "none"], [kind |-> "error"]}
SendActions ==
  {[kind |-> "subscribe"]}
  \cup {[kind |-> "data", to |-> u] : u \in UserTasks}
  \cup {[kind |-> "state", state |-> s] : s \in {STOP, DOWN}}

\* A user task written after TaskTemplate
UserTask(w, tt, act) ==
  IF tt.TaskState = RUN
    THEN LET w1 == DrainOwnInbox(w, tt.TaskID)
         IN IF act.kind = "data"
              THEN PostmanWriteMessage(w1, tt, act.to, "DATA", 1, 0)
            ELSE IF act.kind = "state"
              THEN PostmanWriteMessage(w1, tt, TISM_TaskManagerTaskID,
                                       "SET_SYS_STATE", act.state, 0)
            ELSE IF act.kind = "subscribe"
              THEN PostmanWriteMessage(w1, tt, TISM_IRQHandlerTaskID, "GPIO", 1, 0)
            ELSE IF act.kind = "sleep"
              THEN SetTaskAttribute(w1, tt, tt.TaskID, "SET_TASK_SLEEP", 1)
            ELSE w1
  ELSE IF tt.TaskState = STOP
    THEN SetTaskAttribute(w, tt, tt.TaskID, "SET_TASK_STATE", DOWN)
  ELSE w

\* (*System.Task[...].TaskFunction)(System.Task[...])
TaskFunction(w, tt, act, time) ==
  IF tt.TaskID = TISM_EventLoggerTaskID THEN TISM_EventLogger(w, tt)
  ELSE IF tt.TaskID = TISM_PostmanTaskID THEN TISM_Postman(w, tt)
  ELSE IF tt.TaskID = TISM_IRQHandlerTaskID THEN TISM_IRQHandler(w, tt)
  ELSE IF tt.TaskID = TISM_TaskManagerTaskID THEN TISM_TaskManager(w, tt, time)
  ELSE UserTask(w, tt, act)

(***************************************************************************)
(* The scheduler.  An action is one step of TISM_Scheduler(c) or of a      *)
(* function it calls, with at most one access to data the other core       *)
(* writes, except where the comment of the action says otherwise.          *)
(***************************************************************************)

\* Values an uninitialised RunPriority can hold, as far as the priority
\* filter and the "switch(RunPriority)" can tell them apart
GarbagePriorities == {0, PRIORITY_HIGH, PRIORITY_NORMAL, PRIORITY_LOW}
Unset == -1

\* mutant of LastProcessInRun: a run through the list ends one task early
LastProcessInRunShort(c) ==
  IF RunPointerDirection(c) = QUEUE_RUN_ASCENDING THEN NumberOfTasks - 2 ELSE 2

\* First and last task of a run through the list
FirstProcessInRun(c) ==
  IF RunPointerDirection(c) = QUEUE_RUN_ASCENDING THEN 1 ELSE NumberOfTasks - 1
LastProcessInRun(c) ==
  IF RunPointerDirection(c) = QUEUE_RUN_ASCENDING THEN NumberOfTasks - 1 ELSE 1

\* TISM_Scheduler, INIT: the staggered start times
TasksWithPriority(p) ==
  {t \in 1 .. (NumberOfTasks - 1) :
     IF p = PRIORITY_HIGH \/ p = PRIORITY_NORMAL
       THEN TaskPriority(t) = p
       ELSE TaskPriority(t) # PRIORITY_HIGH /\ TaskPriority(t) # PRIORITY_NORMAL}
PriorityOffset(p) ==
  IF Cardinality(TasksWithPriority(p)) > 0
    THEN p \div Cardinality(TasksWithPriority(p)) ELSE 0
OffsetCounter(t, p) == Cardinality({u \in TasksWithPriority(p) : u < t})
InitialWakeUp(t, Start) ==
  IF TaskPriority(t) = PRIORITY_HIGH
    THEN Start + OffsetCounter(t, PRIORITY_HIGH) * PriorityOffset(PRIORITY_HIGH)
  ELSE IF TaskPriority(t) = PRIORITY_NORMAL
    THEN Start + (PriorityOffset(PRIORITY_HIGH) \div 2)
         + OffsetCounter(t, PRIORITY_NORMAL) * PriorityOffset(PRIORITY_NORMAL)
  ELSE Start + (PriorityOffset(PRIORITY_NORMAL) \div 2)
       + OffsetCounter(t, PRIORITY_LOW) * PriorityOffset(PRIORITY_LOW)

\* "while(TaskWakeUpTimer<RunTimestamp) TaskWakeUpTimer+=TaskPriority;"
RECURSIVE NextWakeUp(_, _, _)
NextWakeUp(WakeUp, RunTimestamp, Priority) ==
  IF WakeUp < RunTimestamp
    THEN NextWakeUp(WakeUp + Priority, RunTimestamp, Priority)
    ELSE WakeUp

\* "switch(RunPriority)" at the end of a run through the list
NextRunPriority(p) ==
  IF p = PRIORITY_HIGH THEN PRIORITY_NORMAL
  ELSE IF p = PRIORITY_NORMAL THEN PRIORITY_LOW
  ELSE PRIORITY_HIGH

\* TISM_EventLoggerLogEvent by the scheduler of core c (its dummy task 0)
SchedulerLogError(q, c) ==
  [q EXCEPT ![c] = BufferWrite(@, Msg(0, TISM_EventLoggerTaskID, "LOG_EVENT_ERROR", 0, 0))]

\* ghost: the task a core in TISM_SchedulerRunTask is about to run
Target(c) == IF pc[c] = "rt_wait" THEN CurrentRunPointer[c] ELSE RunPointer[c]
InRunTask(c) == pc[c] \in {"rt_loop", "rt_wait"}
\* TISM_SchedulerRunTask, "System.Task[System.RunPointer[ThisCoreID]].
\* OutboundMessageQueue=&(OutboundMessageQueue[ThisCoreID]);" and
\* "RunningOnCoreID=ThisCoreID;": the struct of task t after core c has
\* entered the function for it
Handed(t, c) == [TaskOutboundMessageQueue EXCEPT ![t] = c]

\* The struct of task t after core c has left the loop of
\* TISM_SchedulerRunTask and has made its copy of it (or has not called the
\* task).  The two fields are read nowhere else and are written at every
\* entry: unless the other core is inside the function for t their value is
\* not read again, and the model keeps CORE0 for it.
Copied(t, c) ==
  IF \E d \in Cores \ {c} : InRunTask(d) /\ Target(d) = t
    THEN TaskOutboundMessageQueue
    ELSE [TaskOutboundMessageQueue EXCEPT ![t] = CORE0]

\* ghost: the task function core c is inside, or NoTask
Executing(c) == ThisTask[c].TaskID

\* The system when TISM_Scheduler is entered, or with n = 0 when
\* TISM_InitializeSystem has stored "System.NumberOfTasks=0"; ghost: the
\* starts of the tasks in w are recorded
SchedTable(w, n, table) ==
  /\ State = INIT
  /\ RunPointer = [c \in Cores |-> NoTask]
  /\ TaskState = [t \in TaskIDs |-> INIT]
  /\ TaskSleeping = [t \in TaskIDs |-> FALSE]
  /\ TaskWakeUpTimer = [t \in TaskIDs |-> 0]
  /\ OutboundMessageQueue = [c \in Cores |-> <<>>]
  /\ InboundMessageQueue = [t \in TaskIDs |-> <<>>]
  /\ IRQHandlerInboundQueue = <<>>
  /\ TaskReceivedMessage = {}
  /\ Subscriptions = {}
  /\ now = 0
  /\ pc = [c \in Cores |-> "top"]
  /\ ret = [c \in Cores |-> "none"]
  /\ bypass = [c \in Cores |-> <<>>]
  /\ bret = [c \in Cores |-> "none"]
  /\ RunPriority = [c \in Cores |-> Unset]
  /\ PreviousRunPointer = [c \in Cores |-> NoTask]
  /\ CurrentRunPointer = [c \in Cores |-> NoTask]
  /\ TaskCounter = 0
  /\ ThisTask = [c \in Cores |-> NoThisTask]
  /\ rv = [c \in Cores |-> OK]
  /\ sends = 0
  /\ irqs = 0
  /\ warned = {}
  /\ stopRuns = [t \in TaskIDs |-> 0]
  /\ otherRan = [c \in Cores |-> FALSE]
  /\ completed = [c \in Cores |-> Unset]
  /\ ahead = 0
  /\ considered = [c \in Cores |-> [t \in TaskIDs |-> 0]]
  /\ inCycle = [c \in Cores |-> "none"]
  /\ initRv = [t \in TaskIDs |-> "none"]
  /\ arrived = <<>>
  /\ call = NoCall
  /\ started = [t \in TaskIDs |-> Unset]
  /\ gap = [t \in TaskIDs |-> Unset]
  /\ stopOrder = <<>>
  /\ TaskOutboundMessageQueue = [t \in TaskIDs |-> CORE0]
  /\ SystemReadyPort = FALSE
  /\ SystemNumberOfTasks = n
  /\ SystemTask = table
  /\ watched = w

\* ... with the tasks of the model registered
SchedStart(w, n) == SchedTable(w, n, RegisteredTasks(n))

SchedInit == SchedStart({}, NumberOfTasks)

\* "while (System.State>DOWN)"
Top(c) ==
  /\ pc[c] = "top"
  /\ pc' = [pc EXCEPT ![c] = IF State > DOWN THEN "switch" ELSE "done"]
  /\ UNCHANGED <<ringVars, timerVars, irqVars, watchVars, State, RunPointer,
               TaskState, TaskSleeping, TaskWakeUpTimer,
               OutboundMessageQueue, InboundMessageQueue,
               IRQHandlerInboundQueue, TaskReceivedMessage, Subscriptions,
               now, ret, bypass, bret, RunPriority, PreviousRunPointer,
               CurrentRunPointer, TaskCounter, ThisTask, rv, sends, irqs,
               warned, stopRuns, otherRan, completed, ahead, considered,
               inCycle, initRv, arrived, call, started, gap, SystemReadyPort,
               SystemNumberOfTasks, SystemTask, watched,
               TaskOutboundMessageQueue, stopOrder>>

\* "switch(System.State)"; an uninitialised RunPriority gets a value when the
\* first case taken is RUN
Switch(c) ==
  /\ pc[c] = "switch"
  /\ IF State = INIT
       THEN /\ pc' = [pc EXCEPT ![c] = IF c = CORE0 THEN "init_loop" ELSE "init_wait"]
            /\ TaskCounter' = IF c = CORE0 THEN 1 ELSE TaskCounter
            /\ UNCHANGED RunPriority
       ELSE IF State = RUN
         THEN /\ pc' = [pc EXCEPT ![c] = "run_while"]
              /\ \E p \in (IF RunPriority[c] = Unset THEN GarbagePriorities
                                                    ELSE {RunPriority[c]}) :
                   RunPriority' = [RunPriority EXCEPT ![c] = p]
              /\ UNCHANGED TaskCounter
         ELSE /\ pc' = [pc EXCEPT ![c] = "stop_entry"]
              /\ UNCHANGED <<RunPriority, TaskCounter>>
  /\ UNCHANGED <<ringVars, timerVars, irqVars, watchVars, State, RunPointer,
               TaskState, TaskSleeping, TaskWakeUpTimer,
               OutboundMessageQueue, InboundMessageQueue,
               IRQHandlerInboundQueue, TaskReceivedMessage, Subscriptions,
               now, ret, bypass, bret, PreviousRunPointer, CurrentRunPointer,
               ThisTask, rv, sends, irqs, warned, stopRuns, otherRan,
               completed, ahead, considered, inCycle, initRv, arrived, call,
               started, gap, SystemReadyPort, SystemNumberOfTasks,
               SystemTask, watched, TaskOutboundMessageQueue, stopOrder>>

\* INIT on core 0: "for(TaskCounter=1;TaskCounter<NumberOfTasks;...)", the
\* three stores before the call; after the loop the first bypass
InitLoop(c) ==
  /\ c = CORE0
  /\ pc[c] = "init_loop"
  /\ IF TaskCounter < NumberOfTasks
       THEN /\ RunPointer' = [RunPointer EXCEPT ![c] = TaskCounter]
            /\ TaskState' = [TaskState EXCEPT ![TaskCounter] = INIT]
            /\ pc' = [pc EXCEPT ![c] = "u_call"]
            /\ ret' = [ret EXCEPT ![c] = "init_ret"]
            /\ UNCHANGED <<bypass, bret>>
       ELSE /\ bypass' = [bypass EXCEPT ![c] = <<TISM_PostmanTaskID,
                              TISM_TaskManagerTaskID, TISM_EventLoggerTaskID>>]
            /\ bret' = [bret EXCEPT ![c] = "init_sched"]
            /\ pc' = [pc EXCEPT ![c] = "u_bypass"]
            /\ UNCHANGED <<RunPointer, TaskState, ret>>
  /\ UNCHANGED <<ringVars, timerVars, irqVars, watchVars, State, TaskSleeping,
               TaskWakeUpTimer, OutboundMessageQueue, InboundMessageQueue,
               IRQHandlerInboundQueue, TaskReceivedMessage, Subscriptions,
               now, RunPriority, PreviousRunPointer, CurrentRunPointer,
               TaskCounter, ThisTask, rv, sends, irqs, warned, stopRuns,
               otherRan, completed, ahead, considered, inCycle, initRv,
               arrived, call, started, gap, SystemReadyPort,
               SystemNumberOfTasks, SystemTask, watched,
               TaskOutboundMessageQueue, stopOrder>>

\* mutant of InitReturn: the value the task returned is not looked at
InitReturnUnchecked(c) ==
  /\ pc[c] = "init_ret"
  /\ TaskState' = [TaskState EXCEPT ![TaskCounter] = RUN]
  /\ initRv' = [initRv EXCEPT ![TaskCounter] = IF rv[c] # OK THEN "fail" ELSE "ok"]
  /\ TaskCounter' = TaskCounter + 1
  /\ rv' = [rv EXCEPT ![c] = OK]
  /\ pc' = [pc EXCEPT ![c] = "init_loop"]
  /\ UNCHANGED <<ringVars, timerVars, irqVars, watchVars, State, RunPointer,
               TaskSleeping, TaskWakeUpTimer, OutboundMessageQueue,
               InboundMessageQueue, IRQHandlerInboundQueue,
               TaskReceivedMessage, Subscriptions, now, ret, bypass, bret,
               RunPriority, PreviousRunPointer, CurrentRunPointer, ThisTask,
               sends, irqs, warned, stopRuns, otherRan, completed, ahead,
               considered, inCycle, arrived, call, started, gap,
               SystemReadyPort, SystemNumberOfTasks, SystemTask, watched,
               TaskOutboundMessageQueue, stopOrder>>

\* INIT on core 0: the task returned from its INIT invocation
InitReturn(c) ==
  /\ pc[c] = "init_ret"
  /\ initRv' = [initRv EXCEPT ![TaskCounter] = IF rv[c] # OK THEN "fail" ELSE "ok"]
  /\ IF rv[c] # OK
       THEN /\ State' = STOP
            /\ OutboundMessageQueue' = SchedulerLogError(OutboundMessageQueue, c)
            /\ UNCHANGED TaskState
       ELSE /\ TaskState' = [TaskState EXCEPT ![TaskCounter] = RUN]
            /\ UNCHANGED <<State, OutboundMessageQueue>>
  /\ TaskCounter' = TaskCounter + 1
  /\ rv' = [rv EXCEPT ![c] = OK]
  /\ pc' = [pc EXCEPT ![c] = "init_loop"]
  /\ UNCHANGED <<ringVars, timerVars, irqVars, watchVars, RunPointer,
               TaskSleeping, TaskWakeUpTimer, InboundMessageQueue,
               IRQHandlerInboundQueue, TaskReceivedMessage, Subscriptions,
               now, ret, bypass, bret, RunPriority, PreviousRunPointer,
               CurrentRunPointer, ThisTask, sends, irqs, warned, stopRuns,
               otherRan, completed, ahead, considered, inCycle, arrived,
               call, started, gap, SystemReadyPort, SystemNumberOfTasks,
               SystemTask, watched, TaskOutboundMessageQueue, stopOrder>>

\* INIT and STOP on core 0: the next TISM_SchedulerRunTaskUnconditionally of
\* "Attempt to start Postmaster, Taskmanager and EventLogger"
UBypass(c) ==
  /\ pc[c] = "u_bypass"
  /\ IF bypass[c] = <<>>
       THEN /\ pc' = [pc EXCEPT ![c] = bret[c]]
            /\ bret' = [bret EXCEPT ![c] = "none"]
            /\ UNCHANGED <<RunPointer, bypass, ret>>
       ELSE /\ RunPointer' = [RunPointer EXCEPT ![c] = Head(bypass[c])]
            /\ bypass' = [bypass EXCEPT ![c] = Tail(@)]
            /\ ret' = [ret EXCEPT ![c] = "u_bypass"]
            /\ pc' = [pc EXCEPT ![c] = "u_call"]
            /\ UNCHANGED bret
  /\ UNCHANGED <<ringVars, timerVars, irqVars, watchVars, State, TaskState,
               TaskSleeping, TaskWakeUpTimer, OutboundMessageQueue,
               InboundMessageQueue, IRQHandlerInboundQueue,
               TaskReceivedMessage, Subscriptions, now, RunPriority,
               PreviousRunPointer, CurrentRunPointer, TaskCounter, ThisTask,
               rv, sends, irqs, warned, stopRuns, otherRan, completed, ahead,
               considered, inCycle, initRv, arrived, call, started, gap,
               SystemReadyPort, SystemNumberOfTasks, SystemTask, watched,
               TaskOutboundMessageQueue, stopOrder>>

\* TISM_SchedulerRunTaskUnconditionally: the outbound queue of this core is
\* stored in the struct of the task and the task function is called with a
\* copy of the struct
UCall(c) ==
  /\ pc[c] = "u_call"
  /\ TaskOutboundMessageQueue' = Copied(RunPointer[c], c)
  /\ ThisTask' = [ThisTask EXCEPT ![c] =
       [TaskID |-> RunPointer[c], TaskState |-> TaskState[RunPointer[c]],
        OutboundMessageQueue |-> Handed(RunPointer[c], c)[RunPointer[c]]]]
  /\ stopRuns' = IF TaskState[RunPointer[c]] = STOP
                   THEN [stopRuns EXCEPT ![RunPointer[c]] = IF @ < 2 THEN @ + 1 ELSE @]
                   ELSE stopRuns
  /\ stopOrder' =
       IF ret[c] \in {"stop_loop", "stop_tail2", "stop_tail3", "stop_tail4",
                      "stop_down"}
         THEN Append(stopOrder, [TaskID |-> RunPointer[c],
                                 TaskState |-> TaskState[RunPointer[c]]])
         ELSE stopOrder
  /\ pc' = [pc EXCEPT ![c] = "in_task"]
  /\ UNCHANGED <<ringVars, timerVars, irqVars, watchVars, State, RunPointer,
               TaskState, TaskSleeping, TaskWakeUpTimer,
               OutboundMessageQueue, InboundMessageQueue,
               IRQHandlerInboundQueue, TaskReceivedMessage, Subscriptions,
               now, ret, bypass, bret, RunPriority, PreviousRunPointer,
               CurrentRunPointer, TaskCounter, rv, sends, irqs, warned,
               otherRan, completed, ahead, considered, inCycle, initRv,
               arrived, call, started, gap, SystemReadyPort,
               SystemNumberOfTasks, SystemTask, watched>>

\* INIT on core 0: "if(System.State==INIT)" the start times are assigned and
\* the system goes to RUN; then the second bypass
InitSchedule(c) ==
  /\ pc[c] = "init_sched"
  /\ IF State = INIT
       THEN /\ TaskWakeUpTimer' = [t \in TaskIDs |->
                 IF t = 0 THEN TaskWakeUpTimer[t]
                          ELSE InitialWakeUp(t, now + STARTUP_DELAY)]
            /\ State' = RUN
            /\ SystemReadyPort' = TRUE
       ELSE UNCHANGED <<TaskWakeUpTimer, State, SystemReadyPort>>
  /\ bypass' = [bypass EXCEPT ![c] = <<TISM_PostmanTaskID,
                    TISM_TaskManagerTaskID, TISM_EventLoggerTaskID>>]
  /\ bret' = [bret EXCEPT ![c] = "init_end"]
  /\ pc' = [pc EXCEPT ![c] = "u_bypass"]
  /\ UNCHANGED <<ringVars, timerVars, irqVars, watchVars, RunPointer,
               TaskState, TaskSleeping, OutboundMessageQueue,
               InboundMessageQueue, IRQHandlerInboundQueue,
               TaskReceivedMessage, Subscriptions, now, ret, RunPriority,
               PreviousRunPointer, CurrentRunPointer, TaskCounter, ThisTask,
               rv, sends, irqs, warned, stopRuns, otherRan, completed, ahead,
               considered, inCycle, initRv, arrived, call, started, gap,
               SystemNumberOfTasks, SystemTask, watched,
               TaskOutboundMessageQueue, stopOrder>>

\* INIT on core 1: "while(System.State==INIT) sleep_ms(500);" ends
InitWait(c) ==
  /\ pc[c] = "init_wait"
  /\ State # INIT
  /\ pc' = [pc EXCEPT ![c] = "init_end"]
  /\ UNCHANGED <<ringVars, timerVars, irqVars, watchVars, State, RunPointer,
               TaskState, TaskSleeping, TaskWakeUpTimer,
               OutboundMessageQueue, InboundMessageQueue,
               IRQHandlerInboundQueue, TaskReceivedMessage, Subscriptions,
               now, ret, bypass, bret, RunPriority, PreviousRunPointer,
               CurrentRunPointer, TaskCounter, ThisTask, rv, sends, irqs,
               warned, stopRuns, otherRan, completed, ahead, considered,
               inCycle, initRv, arrived, call, started, gap, SystemReadyPort,
               SystemNumberOfTasks, SystemTask, watched,
               TaskOutboundMessageQueue, stopOrder>>

\* INIT: "RunPriority=PRIORITY_HIGH; break;"
InitEnd(c) ==
  /\ pc[c] = "init_end"
  /\ RunPriority' = [RunPriority EXCEPT ![c] = PRIORITY_HIGH]
  /\ pc' = [pc EXCEPT ![c] = "top"]
  /\ UNCHANGED <<ringVars, timerVars, irqVars, watchVars, State, RunPointer,
               TaskState, TaskSleeping, TaskWakeUpTimer,
               OutboundMessageQueue, InboundMessageQueue,
               IRQHandlerInboundQueue, TaskReceivedMessage, Subscriptions,
               now, ret, bypass, bret, PreviousRunPointer, CurrentRunPointer,
               TaskCounter, ThisTask, rv, sends, irqs, warned, stopRuns,
               otherRan, completed, ahead, considered, inCycle, initRv,
               arrived, call, started, gap, SystemReadyPort,
               SystemNumberOfTasks, SystemTask, watched,
               TaskOutboundMessageQueue, stopOrder>>

\* RUN: "System.RunPointer[ThisCoreID]+=System.RunPointerDirection[
\* ThisCoreID];" on a uint8_t, the condition of the do-while and, when the
\* run through the list has ended, "switch(RunPriority)".  ghost: a run that
\* ends before the last task is not part of a complete priority cycle; the
\* cycle is "done" after a complete PRIORITY_LOW run.
AdvanceTo(c) ==
  LET rp == (RunPointer[c] + RunPointerDirection(c)) % UINT8
      inRange == IF RunPointerDirection(c) # QUEUE_RUN_ASCENDING
                   THEN rp >= LastProcessInRun(c)
                   ELSE rp <= LastProcessInRun(c)
  IN /\ RunPointer' = [RunPointer EXCEPT ![c] = rp]
     /\ IF inRange /\ State = RUN
          THEN /\ pc' = [pc EXCEPT ![c] = "walk"]
               /\ UNCHANGED <<RunPriority, inCycle>>
          ELSE /\ RunPriority' = [RunPriority EXCEPT ![c] = NextRunPriority(@)]
               /\ inCycle' = [inCycle EXCEPT ![c] =
                    IF inRange THEN "none" ELSE IF @ = "low" THEN "done" ELSE @]
               /\ pc' = [pc EXCEPT ![c] = "run_while"]

\* RUN: "if(TISM_CircularBufferMessagesWaiting(&IRQHandlerInboundQueue)>0)":
\* IRQHandler, Postman and TaskManager are to run; else on to the next task
ToNextTask(c) ==
  IF MessagesWaiting(Len(IRQHandlerInboundQueue), 0) > 0
    THEN /\ PreviousRunPointer' = [PreviousRunPointer EXCEPT ![c] = RunPointer[c]]
         /\ bypass' = [bypass EXCEPT ![c] = <<TISM_IRQHandlerTaskID,
                         TISM_PostmanTaskID, TISM_TaskManagerTaskID>>]
         /\ bret' = [bret EXCEPT ![c] = "advance"]
         /\ pc' = [pc EXCEPT ![c] = "bypass"]
         /\ UNCHANGED <<RunPointer, RunPriority, inCycle>>
    ELSE /\ AdvanceTo(c)
         /\ UNCHANGED <<PreviousRunPointer, bypass, bret>>

\* RUN: "while (System.State==RUN)" and the run pointer is set to the first
\* task of the list.  ghost: a priority cycle starts with a PRIORITY_HIGH run
\* and goes on with a PRIORITY_NORMAL and a PRIORITY_LOW run.
RunWhile(c) ==
  /\ pc[c] = "run_while"
  /\ IF State = RUN
       THEN /\ RunPointer' = [RunPointer EXCEPT ![c] = FirstProcessInRun(c)]
            /\ inCycle' = [inCycle EXCEPT ![c] =
                 IF RunPriority[c] = PRIORITY_HIGH THEN "high"
                 ELSE IF @ = "high" /\ RunPriority[c] = PRIORITY_NORMAL THEN "normal"
                 ELSE IF @ = "normal" /\ RunPriority[c] = PRIORITY_LOW THEN "low"
                 ELSE "none"]
            /\ considered' =
                 IF RunPriority[c] = PRIORITY_HIGH \/ inCycle[c] \in {"none", "done"}
                   THEN [considered EXCEPT ![c] = [t \in TaskIDs |-> 0]]
                   ELSE considered
            /\ pc' = [pc EXCEPT ![c] = "walk"]
       ELSE /\ inCycle' = [inCycle EXCEPT ![c] = "none"]
            /\ considered' = [considered EXCEPT ![c] = [t \in TaskIDs |-> 0]]
            /\ pc' = [pc EXCEPT ![c] = "run_exit"]
            /\ UNCHANGED RunPointer
  /\ UNCHANGED <<ringVars, timerVars, irqVars, watchVars, State, TaskState,
               TaskSleeping, TaskWakeUpTimer, OutboundMessageQueue,
               InboundMessageQueue, IRQHandlerInboundQueue,
               TaskReceivedMessage, Subscriptions, now, ret, bypass, bret,
               RunPriority, PreviousRunPointer, CurrentRunPointer,
               TaskCounter, ThisTask, rv, sends, irqs, warned, stopRuns,
               otherRan, completed, ahead, initRv, arrived, call, started,
               gap, SystemReadyPort, SystemNumberOfTasks, SystemTask,
               watched, TaskOutboundMessageQueue, stopOrder>>

\* RUN: "RunTimestamp=time_us_64(); if((RunPointer[CORE0]!=RunPointer[CORE1])
\* && (TaskPriority<=RunPriority) && (!TaskSleeping) &&
\* (TaskWakeUpTimer<=RunTimestamp))", evaluated in one step; a task that is
\* not to run is passed in the same step.  For a task that is to run
\* TISM_SchedulerRunTask is entered.
Walk(c) ==
  /\ pc[c] = "walk"
  /\ LET t == RunPointer[c]
     IN /\ IF /\ RunPointer[CORE0] # RunPointer[CORE1]
              /\ TaskPriority(t) <= RunPriority[c]
              /\ ~TaskSleeping[t]
              /\ TaskWakeUpTimer[t] <= now
             THEN /\ pc' = [pc EXCEPT ![c] = "rt_loop"]
                  /\ ret' = [ret EXCEPT ![c] = "after_run"]
                  /\ CurrentRunPointer' = [CurrentRunPointer EXCEPT ![c] = t]
                  /\ TaskOutboundMessageQueue' = Handed(t, c)
                  /\ UNCHANGED <<RunPointer, RunPriority, inCycle,
                                 PreviousRunPointer, bypass, bret>>
             ELSE /\ ToNextTask(c)
                  /\ UNCHANGED <<ret, CurrentRunPointer, TaskOutboundMessageQueue>>
        /\ considered' =
             IF inCycle[c] # "none" /\ TaskPriority(t) <= RunPriority[c]
               THEN [considered EXCEPT ![c][t] = @ + 1]
               ELSE considered
  /\ otherRan' = [otherRan EXCEPT ![c] = FALSE]
  /\ UNCHANGED <<ringVars, timerVars, irqVars, watchVars, State, TaskState,
               TaskSleeping, TaskWakeUpTimer, OutboundMessageQueue,
               InboundMessageQueue, IRQHandlerInboundQueue,
               TaskReceivedMessage, Subscriptions, now, TaskCounter,
               ThisTask, rv, sends, irqs, warned, stopRuns, completed, ahead,
               initRv, arrived, call, started, gap, SystemReadyPort,
               SystemNumberOfTasks, SystemTask, watched, stopOrder>>

\* TISM_SchedulerRunTask: "while(RunPointer[CORE0]==RunPointer[CORE1])" with
\* "System.RunPointer[ThisCoreID]=255;", or after the loop
\* "if((System.State==RUN) && TaskWakeUpTimer<=time_us_64())" and the call,
\* or "return(OK)"
RTLoop(c) ==
  /\ pc[c] = "rt_loop"
  /\ IF RunPointer[CORE0] = RunPointer[CORE1]
       THEN /\ RunPointer' = [RunPointer EXCEPT ![c] = NoTask]
            /\ pc' = [pc EXCEPT ![c] = "rt_wait"]
            /\ UNCHANGED <<CurrentRunPointer, ThisTask, stopRuns, rv, ret,
                           started, gap, TaskOutboundMessageQueue>>
       ELSE /\ CurrentRunPointer' = [CurrentRunPointer EXCEPT ![c] = NoTask]
            /\ TaskOutboundMessageQueue' = Copied(RunPointer[c], c)
            /\ UNCHANGED RunPointer
            /\ IF State = RUN /\ TaskWakeUpTimer[RunPointer[c]] <= now
                 THEN /\ ThisTask' = [ThisTask EXCEPT ![c] =
                           [TaskID |-> RunPointer[c],
                            TaskState |-> TaskState[RunPointer[c]],
                            OutboundMessageQueue |->
                              TaskOutboundMessageQueue[RunPointer[c]]]]
                      /\ stopRuns' =
                           IF TaskState[RunPointer[c]] = STOP
                             THEN [stopRuns EXCEPT ![RunPointer[c]] =
                                     IF @ < 2 THEN @ + 1 ELSE @]
                             ELSE stopRuns
                      /\ pc' = [pc EXCEPT ![c] = "in_task"]
                      /\ started' =
                           IF RunPointer[c] \in watched
                             THEN [started EXCEPT ![RunPointer[c]] = now]
                             ELSE started
                      /\ gap' =
                           IF RunPointer[c] \in watched
                                /\ started[RunPointer[c]] # Unset
                             THEN [gap EXCEPT ![RunPointer[c]] =
                                     now - started[RunPointer[c]]]
                             ELSE gap
                      /\ UNCHANGED <<rv, ret>>
                 ELSE /\ rv' = [rv EXCEPT ![c] = OK]
                      /\ pc' = [pc EXCEPT ![c] = ret[c]]
                      /\ ret' = [ret EXCEPT ![c] = "none"]
                      /\ UNCHANGED <<ThisTask, stopRuns, started, gap>>
  /\ UNCHANGED <<ringVars, timerVars, irqVars, watchVars, State, TaskState,
               TaskSleeping, TaskWakeUpTimer, OutboundMessageQueue,
               InboundMessageQueue, IRQHandlerInboundQueue,
               TaskReceivedMessage, Subscriptions, now, bypass, bret,
               RunPriority, PreviousRunPointer, TaskCounter, sends, irqs,
               warned, otherRan, completed, ahead, considered, inCycle,
               initRv, arrived, call, SystemReadyPort, SystemNumberOfTasks,
               SystemTask, watched, stopOrder>>

\* TISM_SchedulerRunTask: "busy_wait_us(5+(ThisCoreID*2));
\* System.RunPointer[ThisCoreID]=CurrentRunPointer;"
RTWait(c) ==
  /\ pc[c] = "rt_wait"
  /\ RunPointer' = [RunPointer EXCEPT ![c] = CurrentRunPointer[c]]
  /\ pc' = [pc EXCEPT ![c] = "rt_loop"]
  /\ UNCHANGED <<ringVars, timerVars, irqVars, watchVars, State, TaskState,
               TaskSleeping, TaskWakeUpTimer, OutboundMessageQueue,
               InboundMessageQueue, IRQHandlerInboundQueue,
               TaskReceivedMessage, Subscriptions, now, ret, bypass, bret,
               RunPriority, PreviousRunPointer, CurrentRunPointer,
               TaskCounter, ThisTask, rv, sends, irqs, warned, stopRuns,
               otherRan, completed, ahead, considered, inCycle, initRv,
               arrived, call, started, gap, SystemReadyPort,
               SystemNumberOfTasks, SystemTask, watched,
               TaskOutboundMessageQueue, stopOrder>>

\* The task function runs as act says and returns.  ghost: a core that
\* selected the same task in its walk and has not yet run it learns that
\* this core ran it.
TaskReturns(c, act) ==
  /\ LET w == TaskFunction(World, ThisTask[c], act, now)
     IN /\ State' = w.State
        /\ TaskState' = w.TaskState
        /\ TaskSleeping' = w.TaskSleeping
        /\ TaskWakeUpTimer' = w.TaskWakeUpTimer
        /\ OutboundMessageQueue' = w.out
        /\ InboundMessageQueue' = w.inb
        /\ IRQHandlerInboundQueue' = w.irq
        /\ TaskReceivedMessage' = w.recv
        /\ Subscriptions' = w.sub
        /\ warned' = w.warned
        /\ started' = [t \in TaskIDs |->
             IF \/ w.TaskSleeping[t] # TaskSleeping[t]
                \/ w.TaskWakeUpTimer[t] # TaskWakeUpTimer[t]
               THEN Unset ELSE started[t]]
  /\ rv' = [rv EXCEPT ![c] = IF act.kind = "error" THEN ERR_RUNNING_TASK ELSE OK]
  /\ otherRan' = [o \in Cores |->
       IF o = c THEN FALSE
       ELSE IF /\ ret[c] = "after_run"
               /\ InRunTask(o) /\ ret[o] = "after_run"
               /\ Target(o) = ThisTask[c].TaskID
         THEN TRUE ELSE otherRan[o]]
  /\ completed' = IF ret[c] = "after_run"
                    THEN [completed EXCEPT ![c] = now] ELSE completed
  /\ ThisTask' = [ThisTask EXCEPT ![c] = NoThisTask]
  /\ pc' = [pc EXCEPT ![c] = ret[c]]
  /\ ret' = [ret EXCEPT ![c] = "none"]

\* A task function runs and returns; a user task does nothing but empty its
\* mailbox, or returns an error
TaskRun(c) ==
  /\ pc[c] = "in_task"
  /\ \E act \in (IF ThisTask[c].TaskID \in UserTasks
                      /\ ThisTask[c].TaskState \in {INIT, RUN}
                   THEN QuietActions ELSE {[kind |-> "none"]}) :
       TaskReturns(c, act)
  /\ UNCHANGED <<ringVars, timerVars, irqVars, watchVars, RunPointer, now,
               bypass, bret, RunPriority, PreviousRunPointer,
               CurrentRunPointer, TaskCounter, sends, irqs, stopRuns, ahead,
               considered, inCycle, initRv, arrived, call, gap,
               SystemReadyPort, SystemNumberOfTasks, SystemTask, watched,
               TaskOutboundMessageQueue, stopOrder>>

\* A user task runs, sends a message and returns
TaskSend(c) ==
  /\ pc[c] = "in_task"
  /\ ThisTask[c].TaskID \in UserTasks
  /\ ThisTask[c].TaskState = RUN
  /\ sends < MaxSends
  /\ sends' = sends + 1
  /\ \E act \in SendActions : TaskReturns(c, act)
  /\ UNCHANGED <<ringVars, timerVars, irqVars, watchVars, RunPointer, now,
               bypass, bret, RunPriority, PreviousRunPointer,
               CurrentRunPointer, TaskCounter, irqs, stopRuns, ahead,
               considered, inCycle, initRv, arrived, call, gap,
               SystemReadyPort, SystemNumberOfTasks, SystemTask, watched,
               TaskOutboundMessageQueue, stopOrder>>

\* The first user task runs, calls TISM_TaskManagerSetSystemState(DOWN) and
\* returns
TaskSendDown(c) ==
  /\ pc[c] = "in_task"
  /\ ThisTask[c].TaskID = FirstUserTask
  /\ ThisTask[c].TaskState = RUN
  /\ sends < 1
  /\ sends' = sends + 1
  /\ TaskReturns(c, [kind |-> "state", state |-> DOWN])
  /\ UNCHANGED <<ringVars, timerVars, irqVars, watchVars, RunPointer, now,
               bypass, bret, RunPriority, PreviousRunPointer,
               CurrentRunPointer, TaskCounter, irqs, stopRuns, ahead,
               considered, inCycle, initRv, arrived, call, gap,
               SystemReadyPort, SystemNumberOfTasks, SystemTask, watched,
               TaskOutboundMessageQueue, stopOrder>>

\* RUN: "if(TISM_SchedulerRunTask(ThisCoreID)==OK)", "if(System.State==RUN)"
\* and "if(TISM_CircularBufferMessagesWaiting(&OutboundMessageQueue[
\* ThisCoreID])>0)": Postman and TaskManager are to run; or the error is
\* logged, "System.State=STOP; break;" and "switch(RunPriority)"
AfterRun(c) ==
  /\ pc[c] = "after_run"
  /\ rv' = [rv EXCEPT ![c] = OK]
  /\ IF rv[c] # OK
       THEN /\ OutboundMessageQueue' = SchedulerLogError(OutboundMessageQueue, c)
            /\ State' = STOP
            /\ RunPriority' = [RunPriority EXCEPT ![c] = NextRunPriority(@)]
            /\ inCycle' = [inCycle EXCEPT ![c] = "none"]
            /\ pc' = [pc EXCEPT ![c] = "run_while"]
            /\ completed' = [completed EXCEPT ![c] = Unset]
            /\ UNCHANGED <<RunPointer, PreviousRunPointer, bypass, bret>>
     ELSE IF State # RUN
       THEN /\ ToNextTask(c)
            /\ completed' = [completed EXCEPT ![c] = Unset]
            /\ UNCHANGED <<State, OutboundMessageQueue>>
     ELSE IF MessagesWaiting(Len(OutboundMessageQueue[c]), 0) > 0
       THEN /\ PreviousRunPointer' = [PreviousRunPointer EXCEPT ![c] = RunPointer[c]]
            /\ bypass' = [bypass EXCEPT ![c] =
                            <<TISM_PostmanTaskID, TISM_TaskManagerTaskID>>]
            /\ bret' = [bret EXCEPT ![c] = "deadline"]
            /\ pc' = [pc EXCEPT ![c] = "bypass"]
            /\ UNCHANGED <<State, OutboundMessageQueue, RunPointer, RunPriority,
                           inCycle, completed>>
     ELSE /\ pc' = [pc EXCEPT ![c] = "deadline"]
          /\ UNCHANGED <<State, OutboundMessageQueue, RunPointer, RunPriority,
                         inCycle, PreviousRunPointer, bypass, bret, completed>>
  /\ UNCHANGED <<ringVars, timerVars, irqVars, watchVars, TaskState,
               TaskSleeping, TaskWakeUpTimer, InboundMessageQueue,
               IRQHandlerInboundQueue, TaskReceivedMessage, Subscriptions,
               now, ret, CurrentRunPointer, TaskCounter, ThisTask, sends,
               irqs, warned, stopRuns, otherRan, ahead, considered, initRv,
               arrived, call, started, gap, SystemReadyPort,
               SystemNumberOfTasks, SystemTask, watched,
               TaskOutboundMessageQueue, stopOrder>>

\* RUN: the next "System.RunPointer[ThisCoreID]=...; TISM_SchedulerRunTask(
\* ThisCoreID);" of a bypass, or "System.RunPointer[ThisCoreID]=
\* PreviousRunPointer;" after the last one
Bypass(c) ==
  /\ pc[c] = "bypass"
  /\ IF bypass[c] = <<>>
       THEN /\ RunPointer' = [RunPointer EXCEPT ![c] = PreviousRunPointer[c]]
            /\ PreviousRunPointer' = [PreviousRunPointer EXCEPT ![c] = NoTask]
            /\ pc' = [pc EXCEPT ![c] = bret[c]]
            /\ bret' = [bret EXCEPT ![c] = "none"]
            /\ UNCHANGED <<bypass, ret, CurrentRunPointer, TaskOutboundMessageQueue>>
       ELSE /\ RunPointer' = [RunPointer EXCEPT ![c] = Head(bypass[c])]
            /\ bypass' = [bypass EXCEPT ![c] = Tail(@)]
            /\ ret' = [ret EXCEPT ![c] = "bypass"]
            /\ CurrentRunPointer' = [CurrentRunPointer EXCEPT ![c] = Head(bypass[c])]
            /\ TaskOutboundMessageQueue' = Handed(Head(bypass[c]), c)
            /\ pc' = [pc EXCEPT ![c] = "rt_loop"]
            /\ UNCHANGED <<PreviousRunPointer, bret>>
  /\ UNCHANGED <<ringVars, timerVars, irqVars, watchVars, State, TaskState,
               TaskSleeping, TaskWakeUpTimer, OutboundMessageQueue,
               InboundMessageQueue, IRQHandlerInboundQueue,
               TaskReceivedMessage, Subscriptions, now, RunPriority,
               TaskCounter, ThisTask, rv, sends, irqs, warned, stopRuns,
               otherRan, completed, ahead, considered, inCycle, initRv,
               arrived, call, started, gap, SystemReadyPort,
               SystemNumberOfTasks, SystemTask, watched, stopOrder>>

\* RUN: "RunTimestamp=time_us_64(); while (TaskWakeUpTimer<RunTimestamp)
\* TaskWakeUpTimer+=TaskPriority;" in one step, and on to the next task
Deadline(c) ==
  /\ pc[c] = "deadline"
  /\ TaskWakeUpTimer' = [TaskWakeUpTimer EXCEPT ![RunPointer[c]] =
       NextWakeUp(@, now, TaskPriority(RunPointer[c]))]
  /\ completed' = [completed EXCEPT ![c] = Unset]
  /\ ToNextTask(c)
  /\ UNCHANGED <<ringVars, timerVars, irqVars, watchVars, State, TaskState,
               TaskSleeping, OutboundMessageQueue, InboundMessageQueue,
               IRQHandlerInboundQueue, TaskReceivedMessage, Subscriptions,
               now, ret, CurrentRunPointer, TaskCounter, ThisTask, rv, sends,
               irqs, warned, stopRuns, otherRan, ahead, considered, initRv,
               arrived, call, started, gap, SystemReadyPort,
               SystemNumberOfTasks, SystemTask, watched,
               TaskOutboundMessageQueue, stopOrder>>

\* RUN: after the bypass for an interrupt, on to the next task
Advance(c) ==
  /\ pc[c] = "advance"
  /\ AdvanceTo(c)
  /\ UNCHANGED <<ringVars, timerVars, irqVars, watchVars, State, TaskState,
               TaskSleeping, TaskWakeUpTimer, OutboundMessageQueue,
               InboundMessageQueue, IRQHandlerInboundQueue,
               TaskReceivedMessage, Subscriptions, now, ret, bypass, bret,
               PreviousRunPointer, CurrentRunPointer, TaskCounter, ThisTask,
               rv, sends, irqs, warned, stopRuns, otherRan, completed, ahead,
               considered, initRv, arrived, call, started, gap,
               SystemReadyPort, SystemNumberOfTasks, SystemTask, watched,
               TaskOutboundMessageQueue, stopOrder>>

\* RUN: the loop has ended, "System.RunPointer[ThisCoreID]=
\* System.TISM_PostmanTaskID; TISM_SchedulerRunTask(ThisCoreID); break;"
RunExit(c) ==
  /\ pc[c] = "run_exit"
  /\ RunPointer' = [RunPointer EXCEPT ![c] = TISM_PostmanTaskID]
  /\ ret' = [ret EXCEPT ![c] = "top"]
  /\ CurrentRunPointer' = [CurrentRunPointer EXCEPT ![c] = TISM_PostmanTaskID]
  /\ TaskOutboundMessageQueue' = Handed(TISM_PostmanTaskID, c)
  /\ pc' = [pc EXCEPT ![c] = "rt_loop"]
  /\ UNCHANGED <<ringVars, timerVars, irqVars, watchVars, State, TaskState,
               TaskSleeping, TaskWakeUpTimer, OutboundMessageQueue,
               InboundMessageQueue, IRQHandlerInboundQueue,
               TaskReceivedMessage, Subscriptions, now, bypass, bret,
               RunPriority, PreviousRunPointer, TaskCounter, ThisTask, rv,
               sends, irqs, warned, stopRuns, otherRan, completed, ahead,
               considered, inCycle, initRv, arrived, call, started, gap,
               SystemReadyPort, SystemNumberOfTasks, SystemTask, watched,
               stopOrder>>

(***************************************************************************)
(* Part 3: the software timers (TISM_SoftwareTimer.c).  Two tasks, one on  *)
(* each core, set and cancel timers; the TISM_SoftwareTimer task processes *)
(* its messages and scans the list.  Postman hands a message over          *)
(* unchanged, so a request is written to the inbound queue of the timer    *)
(* task directly.  The linear list is a sequence, first entry first.       *)
(***************************************************************************)
\* "TimerIntervalMsec*1000"
UsecPerMsec == 1000

\* The intervals the tasks of the model ask for, in milliseconds
Intervals == {ShortInterval, LongInterval}
TimerIDs == 1 .. NumberOfTimerIDs

\* The product of two uint32_t values, a * b modulo 2^32, for b < 2^16; it
\* is computed by half-words so that no intermediate value leaves the range
\* of the integers of the model checker.
Mul32(a, b) ==
  LET lo == (a % (2^16)) * b
      hi == (((a \div (2^16)) * b) + (lo \div (2^16))) % (2^16)
  IN (hi * (2^16)) + (lo % (2^16))

\* "(TimerIntervalMsec*1000)": a multiplication of a uint32_t by an int
IntervalUsec(TimerIntervalMsec) == Mul32(TimerIntervalMsec, UsecPerMsec)

\* "TISM_SoftwareTimerData.FirstTimerEventUsec=0xFFFFFFFFFFFFFFFF", cut to
\* the integers of the model: later than every deadline of the model
NoTimerEvent == 2^30

\* The id of the TISM_SoftwareTimer task: in the model it is registered
\* after the other tasks
TISM_SoftwareTimerTaskID == NumberOfTasks

\* The task that sets and cancels timers on core c
Caller(c) == FirstUserTask + c

RemoveAt(list, i) == SubSeq(list, 1, i - 1) \o SubSeq(list, i + 1, Len(list))

\* TISM_SoftwareTimerCancelTimer: every entry of the task with this timer id
\* leaves the list
CancelTimer(list, TaskID, TimerID) ==
  SelectSeq(list, LAMBDA e : ~(e.TaskID = TaskID /\ e.TimerID = TimerID))

\* Index of the first entry with the sequence number, 0 when there is none
FirstWithSequenceNr(list, SequenceNr) ==
  IF \E i \in 1 .. Len(list) : list[i].SequenceNr = SequenceNr
    THEN CHOOSE i \in 1 .. Len(list) :
           /\ list[i].SequenceNr = SequenceNr
           /\ \A j \in 1 .. (i - 1) : list[j].SequenceNr # SequenceNr
    ELSE 0

\* mutant of CancelTimerBySequenceNr: the list is left as it is
CancelTimerBySequenceNrNothing(list, SequenceNr) == list

\* TISM_SoftwareTimerCancelTimerBySequenceNr: the first entry with the
\* sequence number leaves the list ("return;  // Record found; we're done.")
CancelTimerBySequenceNr(list, SequenceNr) ==
  LET i == FirstWithSequenceNr(list, SequenceNr)
  IN IF i = 0 THEN list ELSE RemoveAt(list, i)

TimerInit ==
  /\ Entries = <<>>
  /\ SequenceCounter = 0
  /\ time_us_64 = 0
  /\ TimerInbox = <<>>
  /\ TimerWakeUp = 0
  /\ TimerSleeping = TRUE
  /\ setpc = [c \in Cores |-> "idle"]
  /\ setreg = [c \in Cores |-> 0]
  /\ held = {}
  /\ notified = <<>>
  /\ cancelled = {}
  /\ examined = <<>>
  /\ scanned = [list |-> <<>>, at |-> 0]

\* Postman has delivered a message to the timer task and TaskManager
\* processes the wake-up request: "if(TaskSleeping==true) {TaskSleeping=
\* false; TaskWakeUpTimer=time_us_64();}"
TimerWake ==
  IF TimerInbox' # TimerInbox /\ TimerSleeping
    THEN /\ TimerSleeping' = FALSE
         /\ TimerWakeUp' = time_us_64
    ELSE UNCHANGED <<TimerSleeping, TimerWakeUp>>

\* TISM_SoftwareTimerSet: "TISM_SoftwareTimerData.SequenceCounter++;" loads
\* the counter ...
SetLoad(c) ==
  /\ setpc[c] = "idle"
  /\ SequenceCounter < MaxSets
  /\ Len(Entries) + Len(TimerInbox)
       + Cardinality({d \in Cores : setpc[d] # "idle"}) < MaxTimers
  /\ setreg' = [setreg EXCEPT ![c] = SequenceCounter]
  /\ setpc' = [setpc EXCEPT ![c] = "loaded"]
  /\ UNCHANGED <<ringVars, schedVars, irqVars, watchVars, Entries, SequenceCounter,
                 time_us_64, TimerInbox, TimerWakeUp, TimerSleeping, held, notified,
                 cancelled, examined, scanned>>

\* ... and stores the value it loaded, plus one (the counter of the model
\* stays far below 2^32)
SetStore(c) ==
  /\ setpc[c] = "loaded"
  /\ SequenceCounter' = setreg[c] + 1
  /\ setpc' = [setpc EXCEPT ![c] = "stored"]
  /\ UNCHANGED <<ringVars, schedVars, irqVars, watchVars, Entries, time_us_64,
                 TimerInbox, TimerWakeUp, TimerSleeping, setreg, held, notified, cancelled,
                 examined, scanned>>

\* TISM_SoftwareTimerSet: the entry is filled, with the counter as it is
\* now, and a TISM_SET_TIMER message with the pointer goes to the timer
\* task; the function returns the counter
SetSend(c) ==
  /\ setpc[c] = "stored"
  /\ \E TimerID \in TimerIDs, RepetitiveTimer \in BOOLEAN,
        TimerIntervalMsec \in Intervals :
       LET EntryPointer ==
             [TaskID |-> Caller(c), SequenceNr |-> SequenceCounter,
              TimerID |-> TimerID, RepetitiveTimer |-> RepetitiveTimer,
              TimerIntervalMsec |-> TimerIntervalMsec,
              NextTimerEventUsec |->
                time_us_64 + IntervalUsec(TimerIntervalMsec)]
       IN TimerInbox' =
            BufferWrite(TimerInbox,
                        Msg(Caller(c), TISM_SoftwareTimerTaskID, "TISM_SET_TIMER",
                            EntryPointer, 0))
  /\ held' = held \cup {SequenceCounter}
  /\ setpc' = [setpc EXCEPT ![c] = "idle"]
  /\ TimerWake
  /\ UNCHANGED <<ringVars, schedVars, irqVars, watchVars, Entries, SequenceCounter,
                 time_us_64, setreg, notified, cancelled,
                 examined, scanned>>

\* TISM_SoftwareTimerCancel, for a timer of the task that is in the list
Cancel(c) ==
  /\ setpc[c] = "idle"
  /\ \E TimerID \in TimerIDs :
       /\ \E i \in 1 .. Len(Entries) :
            Entries[i].TaskID = Caller(c) /\ Entries[i].TimerID = TimerID
       /\ \A i \in 1 .. Len(TimerInbox) :
            TimerInbox[i].MessageType # "TISM_CANCEL_TIMER"
       /\ TimerInbox' =
            BufferWrite(TimerInbox,
                        Msg(Caller(c), TISM_SoftwareTimerTaskID, "TISM_CANCEL_TIMER",
                            TimerID, 0))
  /\ TimerWake
  /\ UNCHANGED <<ringVars, schedVars, irqVars, watchVars, Entries, SequenceCounter,
                 time_us_64, setpc, setreg, held, notified,
                 cancelled, examined, scanned>>

\* TISM_SoftwareTimerCancelBySequenceNr, with a sequence number that
\* TISM_SoftwareTimerSet has returned and that is not cancelled yet
CancelBySequenceNr(c) ==
  /\ setpc[c] = "idle"
  /\ \E SequenceNr \in held \ cancelled :
       /\ \A i \in 1 .. Len(TimerInbox) :
            TimerInbox[i].MessageType # "TISM_CANCEL_TIMER_BY_NR"
       /\ TimerInbox' =
            BufferWrite(TimerInbox,
                        Msg(Caller(c), TISM_SoftwareTimerTaskID,
                            "TISM_CANCEL_TIMER_BY_NR", SequenceNr, 0))
  /\ TimerWake
  /\ UNCHANGED <<ringVars, schedVars, irqVars, watchVars, Entries, SequenceCounter,
                 time_us_64, setpc, setreg, held, notified,
                 cancelled, examined, scanned>>

\* The clock advances
TimerTick ==
  /\ time_us_64 + TickUsec <= MaxClock
  /\ time_us_64' = time_us_64 + TickUsec
  /\ UNCHANGED <<ringVars, schedVars, irqVars, watchVars, Entries, SequenceCounter,
                 TimerInbox, TimerWakeUp, TimerSleeping, setpc, setreg, held, notified,
                 cancelled, examined, scanned>>

\* TISM_SoftwareTimer, RUN: "while((TISM_PostmanTaskMessagesWaiting(ThisTask)
\* >0) && (MessageCounter<MAX_MESSAGES))", the switch on the message type.
\* The result is the list and the sequence numbers of the cancellations.
RECURSIVE ProcessMessages(_, _, _)
ProcessMessages(list, done, queue) ==
  IF queue = <<>> THEN [list |-> list, done |-> done]
  ELSE LET MessageToProcess == Head(queue)
       IN IF MessageToProcess.MessageType = "TISM_CANCEL_TIMER"
            THEN ProcessMessages(
                   IF list # <<>>
                     THEN CancelTimer(list, MessageToProcess.SenderTaskID,
                                      MessageToProcess.Message)
                     ELSE list,
                   done, Tail(queue))
          ELSE IF MessageToProcess.MessageType = "TISM_CANCEL_TIMER_BY_NR"
            THEN ProcessMessages(
                   IF list # <<>>
                     THEN CancelTimerBySequenceNr(list, MessageToProcess.Message)
                     ELSE list,
                   done \cup {MessageToProcess.Message}, Tail(queue))
          ELSE \* TISM_SET_TIMER: the new entry becomes the first of the list
               ProcessMessages(<<MessageToProcess.Message>> \o list, done,
                               Tail(queue))

\* The notification of an expired timer: "TISM_PostmanTaskWriteMessage(
\* ThisTask,System.HostID,SearchPointer->TaskID,SearchPointer->TimerID,
\* SearchPointer->SequenceNr,0)"
Notification(e) ==
  Msg(TISM_SoftwareTimerTaskID, e.TaskID, e.TimerID, e.SequenceNr, 0)

Min(a, b) == IF a < b THEN a ELSE b

\* TISM_SoftwareTimer, RUN: the walk through the list, "while(SearchPointer
\* !=NULL)", from the entry at index i.  After the entry SearchPointer
\* points to has been freed, "SearchPointer=SearchPointer->NextEvent" reads
\* freed memory: it finds the pointer that was there and the walk goes on
\* with the successor, or the memory has been given out again by then
\* (TISM_SoftwareTimerSet, on the other core, stores NULL in the NextEvent of
\* the block malloc gave it) and the walk ends.  cut is the number of the
\* removal whose read finds NULL, 0 for none.
\* s: list, notes (notifications written), ex (the entries looked at, what
\* was done to each), first (FirstTimerEventUsec), frees.
RECURSIVE Scan(_, _, _, _)
Scan(s, i, RunTimestamp, cut) ==
  IF i > Len(s.list) THEN s
  ELSE LET SearchPointer == s.list[i]
       IN IF SearchPointer.NextTimerEventUsec < RunTimestamp
            THEN IF SearchPointer.RepetitiveTimer
                   THEN LET next == SearchPointer.NextTimerEventUsec
                                    + IntervalUsec(SearchPointer.TimerIntervalMsec)
                        IN Scan([s EXCEPT
                                   !.list[i].NextTimerEventUsec = next,
                                   !.notes = Append(@, Notification(SearchPointer)),
                                   !.ex = Append(@, [entry |-> SearchPointer,
                                                     sent |-> TRUE,
                                                     after |-> next]),
                                   !.first = Min(@, next)],
                                i + 1, RunTimestamp, cut)
                   ELSE LET j == FirstWithSequenceNr(s.list, SearchPointer.SequenceNr)
                            t == [s EXCEPT
                                    !.list = CancelTimerBySequenceNr(
                                               @, SearchPointer.SequenceNr),
                                    !.notes = Append(@, Notification(SearchPointer)),
                                    !.ex = Append(@, [entry |-> SearchPointer,
                                                      sent |-> TRUE,
                                                      after |-> NoTimerEvent]),
                                    !.frees = IF j = i THEN @ + 1 ELSE @]
                        IN IF j = i /\ t.frees = cut
                             THEN t
                             ELSE \* the successor has moved to index i
                                  Scan(t, i, RunTimestamp, cut)
            ELSE Scan([s EXCEPT
                         !.ex = Append(@, [entry |-> SearchPointer,
                                           sent |-> FALSE,
                                           after |-> SearchPointer.NextTimerEventUsec]),
                         !.first = Min(@, SearchPointer.NextTimerEventUsec)],
                      i + 1, RunTimestamp, cut)

\* TISM_SoftwareTimer with task state RUN, started by the scheduler when the
\* task is awake and its wake-up time has come: the messages, then the scan.
\* Without entries the task asks to be put to sleep and the wake-up time
\* stays.
TimerRun ==
  /\ ~TimerSleeping
  /\ TimerWakeUp <= time_us_64
  /\ LET m == ProcessMessages(Entries, {}, TimerInbox)
     IN /\ TimerInbox' = <<>>
        /\ cancelled' = cancelled \cup m.done
        /\ scanned' = [list |-> m.list, at |-> time_us_64]
        /\ \E cut \in 0 .. Len(m.list) :
             LET s == Scan([list |-> m.list, notes |-> <<>>, ex |-> <<>>,
                            first |-> NoTimerEvent, frees |-> 0],
                           1, time_us_64, cut)
             IN /\ cut <= s.frees
                /\ Entries' = s.list
                /\ notified' = notified \o s.notes
                /\ examined' = s.ex
                /\ TimerWakeUp' = IF m.list # <<>> THEN s.first ELSE TimerWakeUp
        /\ TimerSleeping' = (m.list = <<>>)
  /\ UNCHANGED <<ringVars, schedVars, irqVars, watchVars, SequenceCounter, time_us_64,
                 setpc, setreg, held>>

TimerNext ==
  \/ \E c \in Cores : SetLoad(c)
  \/ \E c \in Cores : SetStore(c)
  \/ \E c \in Cores : SetSend(c)
  \/ \E c \in Cores : Cancel(c)
  \/ \E c \in Cores : CancelBySequenceNr(c)
  \/ TimerTick
  \/ TimerRun

(***************************************************************************)
(* Part 4: the subscriptions of TISM_IRQHandler (TISM_IRQHandler.c).  The  *)
(* task processes one request of a user task per step; the list of a GPIO  *)
(* is a sequence, first record first.                                      *)
(***************************************************************************)
IRQ_UNSUBSCRIBE == 0
GPIO_0 == 0
GPIO_IRQ_EDGE_FALL == 4
GPIO_IRQ_EDGE_RISE == 8
\* the 'pull down' bit of the Specification field
PullDownBit == 16777216

\* The GPIOs the tasks of the model subscribe to
GPIOs == {GPIO_0}
EventValues == {IRQ_UNSUBSCRIBE, GPIO_IRQ_EDGE_FALL, GPIO_IRQ_EDGE_RISE}
AntiBounceValues == 0 .. MaxAntiBounce

\* a | b
RECURSIVE BitOr(_, _)
BitOr(a, b) ==
  IF a = 0 THEN b
  ELSE IF b = 0 THEN a
  ELSE (IF a % 2 = 1 \/ b % 2 = 1 THEN 1 ELSE 0)
       + 2 * BitOr(a \div 2, b \div 2)

\* a & b
RECURSIVE BitAnd(_, _)
BitAnd(a, b) ==
  IF a = 0 \/ b = 0 THEN 0
  ELSE (IF a % 2 = 1 /\ b % 2 = 1 THEN 1 ELSE 0)
       + 2 * BitAnd(a \div 2, b \div 2)

\* TISM_IRQHandlerSubscribe: "CombinedValue=(0xFFFFFF & AntiBounceTimeout)+
\* (GPIOPullDown==true?0x01000000:0)" and the message to TISM_IRQHandler
SubscribeMessage(t, gpio, Events, GPIOPullDown, AntiBounceTimeout) ==
  Msg(t, TISM_IRQHandlerTaskID, gpio, Events,
      (AntiBounceTimeout % PullDownBit) + (IF GPIOPullDown THEN PullDownBit ELSE 0))

\* TISM_IRQHandlerCalculateEventsMask
RECURSIVE CalculateEventsMask(_)
CalculateEventsMask(list) ==
  IF list = <<>> THEN 0
  ELSE BitOr(Head(list).Events, CalculateEventsMask(Tail(list)))

\* The record a request creates
NewSubscription(m) ==
  [TaskID |-> m.SenderTaskID, Events |-> m.Message,
   AntiBounceTimeout |-> m.Specification % PullDownBit,
   LastSuccessfullInterrupt |-> 0]

\* "while((SearchPointer!=NULL) && (SearchPointer->TaskID!=
\* MessageToProcess->SenderTaskID))": index of the record of the task, 0
\* when the walk reaches the end of the list
SearchSubscription(list, t) ==
  IF \E i \in 1 .. Len(list) : list[i].TaskID = t
    THEN CHOOSE i \in 1 .. Len(list) :
           list[i].TaskID = t /\ \A j \in 1 .. (i - 1) : list[j].TaskID # t
    ELSE 0

\* mutant of UpdateSubscription: a second record for the task
UpdateSubscriptionAppend(list, i, Events) ==
  Append(list, [list[i] EXCEPT !.Events = Events])

\* "SearchPointer->Events=MessageToProcess->Message;"
UpdateSubscription(list, i, Events) == [list EXCEPT ![i].Events = Events]

NoRequest == Msg(NoTask, TISM_IRQHandlerTaskID, GPIO_0, IRQ_UNSUBSCRIBE, 0)

IrqInit ==
  /\ GPIO = [g \in GPIOs |-> [Initialized |-> FALSE, GPIOPullDown |-> TRUE,
                              EventMask |-> 0, Subscriptions |-> <<>>]]
  /\ request = NoRequest
  /\ fault = FALSE
  /\ IrqInbound = <<>>
  /\ irqClock = BootTime
  /\ captured = <<>>
  /\ forwarded = <<>>

\* TISM_IRQHandler, RUN, "case GPIO_0: ... case GPIO_28:": the subscription
\* request m is processed.  With the GPIO initialized and its list empty the
\* walk ends with PreviousSearchPointer NULL, and "PreviousSearchPointer->
\* NextSubscription=NewSubscription" stores through the NULL pointer: the
\* store is lost, and the processor goes on or stops with a fault.
ProcessRequest(m) ==
  LET gpio == m.MessageType
      Events == m.Message
      g == GPIO[gpio]
      i == SearchSubscription(g.Subscriptions, m.SenderTaskID)
      list == IF i # 0
                THEN IF Events = IRQ_UNSUBSCRIBE
                       THEN RemoveAt(g.Subscriptions, i)
                       ELSE UpdateSubscription(g.Subscriptions, i, Events)
              ELSE IF g.Subscriptions = <<>>
                THEN g.Subscriptions
              ELSE Append(g.Subscriptions, NewSubscription(m))
  IN /\ ~fault
     /\ request' = m
     /\ IF ~g.Initialized
          THEN /\ fault' = FALSE
               /\ IF Events = IRQ_UNSUBSCRIBE
                    THEN UNCHANGED GPIO
                    ELSE GPIO' =
                           [GPIO EXCEPT ![gpio] =
                              [Initialized |-> TRUE,
                               GPIOPullDown |-> m.Specification >= PullDownBit,
                               EventMask |-> m.Message,
                               Subscriptions |-> <<NewSubscription(m)>>]]
          ELSE /\ GPIO' = [GPIO EXCEPT
                             ![gpio].Subscriptions = list,
                             ![gpio].EventMask = CalculateEventsMask(list)]
               /\ IF i = 0 /\ g.Subscriptions = <<>>
                    THEN fault' \in BOOLEAN
                    ELSE fault' = FALSE
     /\ UNCHANGED <<ringVars, schedVars, timerVars, watchVars, IrqInbound, irqClock,
                    captured, forwarded>>

\* A user task calls TISM_IRQHandlerSubscribe and TISM_IRQHandler processes
\* the message
IRQHandlerRequest ==
  \E t \in UserTasks, gpio \in GPIOs, Events \in EventValues,
     GPIOPullDown \in BOOLEAN, AntiBounceTimeout \in AntiBounceValues :
    ProcessRequest(SubscribeMessage(t, gpio, Events, GPIOPullDown, AntiBounceTimeout))

IrqNext == IRQHandlerRequest

(***************************************************************************)
(* The anti-bounce window: tasks subscribe to GPIO_0 with a window, then  *)
(* interrupts are captured and TISM_IRQHandler processes them.              *)
(***************************************************************************)
Windows == 1 .. MaxWindow

\* A user task without a subscription subscribes to the rising edge of
\* GPIO_0, before the first interrupt
BounceSubscribe ==
  /\ captured = <<>>
  /\ \E t \in UserTasks, AntiBounceTimeout \in Windows :
       /\ SearchSubscription(GPIO[GPIO_0].Subscriptions, t) = 0
       /\ ProcessRequest(SubscribeMessage(t, GPIO_0, GPIO_IRQ_EDGE_RISE, TRUE,
                                          AntiBounceTimeout))

\* TISM_IRQHandlerCallback: the interrupt goes to IRQHandlerInboundQueue;
\* TISM_CircularBufferWrite stamps it with time_us_64().  n numbers the
\* interrupts the queue accepted.
IrqCallback ==
  /\ GPIO[GPIO_0].Initialized
  /\ Len(captured) < MaxCaptures
  /\ LET m == [MessageType |-> GPIO_0, Message |-> GPIO_IRQ_EDGE_RISE,
               MessageTimestamp |-> irqClock, n |-> Len(captured) + 1]
     IN /\ IrqInbound' = BufferWrite(IrqInbound, m)
        /\ captured' = IF SlotsAvailable(Len(IrqInbound), 0) > 0
                         THEN Append(captured, irqClock)
                         ELSE captured
  /\ UNCHANGED <<ringVars, schedVars, timerVars, watchVars, GPIO, request, fault,
                 irqClock, forwarded>>

\* The clock advances
IrqTick ==
  /\ irqClock < MaxIrqClock
  /\ irqClock' = irqClock + 1
  /\ UNCHANGED <<ringVars, schedVars, timerVars, watchVars, GPIO, request, fault,
                 IrqInbound, captured, forwarded>>

\* TISM_IRQHandler, RUN: "while(SearchPointer!=NULL)" for the interrupt m,
\* from record i of the list.  s: list, out (the messages written; of is the
\* number of the interrupt a message forwards).
RECURSIVE ForwardInterrupt(_, _, _, _)
ForwardInterrupt(s, i, m, GPIOPullDown) ==
  IF i > Len(s.list) THEN s
  ELSE LET SearchPointer == s.list[i]
       IN IF BitAnd(m.Message, SearchPointer.Events) # 0
               /\ (SearchPointer.AntiBounceTimeout = 0
                   \/ m.MessageTimestamp >
                        SearchPointer.LastSuccessfullInterrupt
                        + SearchPointer.AntiBounceTimeout)
            THEN ForwardInterrupt(
                   [list |-> [s.list EXCEPT ![i].LastSuccessfullInterrupt =
                                              m.MessageTimestamp],
                    out |-> Append(s.out,
                                   [msg |-> Msg(TISM_IRQHandlerTaskID,
                                                SearchPointer.TaskID,
                                                m.MessageType, m.Message,
                                                GPIOPullDown),
                                    of |-> m.n])],
                   i + 1, m, GPIOPullDown)
            ELSE ForwardInterrupt(s, i + 1, m, GPIOPullDown)

\* TISM_IRQHandler, RUN: "while((TISM_CircularBufferMessagesWaiting(
\* &IRQHandlerInboundQueue)>0) && (MessageCounter<MAX_MESSAGES))"
RECURSIVE DrainInterrupts(_, _, _)
DrainInterrupts(s, queue, GPIOPullDown) ==
  IF queue = <<>> THEN s
  ELSE DrainInterrupts(ForwardInterrupt(s, 1, Head(queue), GPIOPullDown),
                       Tail(queue), GPIOPullDown)

\* TISM_IRQHandler runs with interrupts in the queue
IRQHandlerInterrupts ==
  /\ IrqInbound # <<>>
  /\ LET s == DrainInterrupts([list |-> GPIO[GPIO_0].Subscriptions, out |-> <<>>],
                              IrqInbound, GPIO[GPIO_0].GPIOPullDown)
     IN /\ GPIO' = [GPIO EXCEPT ![GPIO_0].Subscriptions = s.list]
        /\ forwarded' = forwarded \o s.out
  /\ IrqInbound' = <<>>
  /\ UNCHANGED <<ringVars, schedVars, timerVars, watchVars, request, fault, irqClock,
                 captured>>

BounceNext ==
  \/ BounceSubscribe
  \/ IrqCallback
  \/ IrqTick
  \/ IRQHandlerInterrupts

(***************************************************************************)
(* Part 4c: TISM_Watchdog (TISM_Watchdog.c) and the tasks it pings.  Time  *)
(* is kept relative: RequestAge is the time since TimeRequestSent and      *)
(* PingRoundDue the time until NextPingRound, so that the rounds repeat    *)
(* for ever in a finite model.  The Postman's delivery is one step with    *)
(* the write: a message goes straight to the inbound queue of its          *)
(* recipient and is lost when that queue is full.  The tasks of the model  *)
(* do not sleep.                                                           *)
(***************************************************************************)
TISM_PING == 51
TISM_ECHO == 52
\* TISM_Watchdog is registered after the tasks of the model
TISM_WatchdogTaskID == NumberOfTasks + 1
\* The tasks the ping round of the model visits
WatchedTasks == UserTasks

\* TISM_Watchdog, INIT
WatchdogStart(silent) ==
  /\ DataRequestSent = [t \in WatchedTasks |-> -1]
  /\ RequestAge = [t \in WatchedTasks |-> TaskTimeout + 1]
  /\ PingMessageCounter = 0
  /\ PingRoundDue = 0
  /\ WatchdogInbound = <<>>
  /\ PingInbound = [t \in WatchedTasks |-> <<>>]
  /\ WatchdogLog = {}
  /\ Silent = silent
  /\ pinged = {}

WatchdogInit == WatchdogStart({})

\* "case TISM_ECHO:" for the messages of the inbound queue, first one first:
\* an error is logged for a matching reply that took longer than
\* WATCHDOG_TASK_TIMEOUT and, with TaskDebug set, for a reply that does not
\* match
RECURSIVE ProcessEchoes(_, _, _)
ProcessEchoes(log, queue, TaskDebug) ==
  IF queue = <<>> THEN log
  ELSE LET m == Head(queue)
           t == m.SenderTaskID
           entry == IF m.Message = DataRequestSent[t]
                      THEN IF RequestAge[t] > TaskTimeout
                             THEN {[task |-> t, event |-> "exceeded maximum delay"]}
                             ELSE {}
                    ELSE IF TaskDebug
                      THEN {[task |-> t, event |-> "Invalid ECHO response"]}
                    ELSE {}
       IN ProcessEchoes(log \cup entry, Tail(queue), TaskDebug)

\* "for(MessageCounter=0;MessageCounter<System.NumberOfTasks;MessageCounter++)":
\* a PING with the counter as payload for every task from t on, the time and
\* the payload are stored, and the counter is incremented and wraps
RECURSIVE PingRound(_, _)
PingRound(w, t) ==
  IF t \notin WatchedTasks THEN w
  ELSE PingRound(
         [inbound |-> [w.inbound EXCEPT ![t] =
                         BufferWrite(@, Msg(TISM_WatchdogTaskID, t, TISM_PING,
                                            w.counter, 0))],
          age |-> [w.age EXCEPT ![t] = 0],
          sent |-> [w.sent EXCEPT ![t] = w.counter],
          counter |-> IF w.counter + 1 >= MaxPingCounter THEN 0 ELSE w.counter + 1],
         t + 1)

\* TISM_Watchdog, RUN: the waiting messages are processed, and when the
\* next round is due every task gets a PING
WatchdogRun ==
  \E TaskDebug \in BOOLEAN :
    /\ WatchdogLog' = ProcessEchoes(WatchdogLog, WatchdogInbound, TaskDebug)
    /\ WatchdogInbound' = <<>>
    /\ IF PingRoundDue = 0
         THEN LET w == PingRound([inbound |-> PingInbound, age |-> RequestAge,
                                  sent |-> DataRequestSent,
                                  counter |-> PingMessageCounter], FirstUserTask)
              IN /\ PingInbound' = w.inbound
                 /\ RequestAge' = w.age
                 /\ DataRequestSent' = w.sent
                 /\ PingMessageCounter' = w.counter
                 /\ PingRoundDue' = CheckInterval
                 /\ pinged' = pinged \cup WatchedTasks
         ELSE UNCHANGED <<PingInbound, RequestAge, DataRequestSent,
                          PingMessageCounter, PingRoundDue, pinged>>
    /\ UNCHANGED <<ringVars, schedVars, timerVars, irqVars, Silent>>

\* A task that answers runs: "case TISM_PING:" writes a TISM_ECHO with the
\* payload of the PING to the sender, for every message of its queue
RECURSIVE Echoes(_, _)
Echoes(queue, pings) ==
  IF pings = <<>> THEN queue
  ELSE Echoes(BufferWrite(queue, Msg(Head(pings).RecipientTaskID,
                                     Head(pings).SenderTaskID, TISM_ECHO,
                                     Head(pings).Message, 0)),
              Tail(pings))

TaskEcho(t) ==
  /\ t \notin Silent
  /\ PingInbound[t] # <<>>
  /\ WatchdogInbound' = Echoes(WatchdogInbound, PingInbound[t])
  /\ PingInbound' = [PingInbound EXCEPT ![t] = <<>>]
  /\ UNCHANGED <<ringVars, schedVars, timerVars, irqVars, DataRequestSent,
                 RequestAge, PingMessageCounter, PingRoundDue, WatchdogLog,
                 Silent, pinged>>

\* time_us_64() advances by one unit
WatchdogTick ==
  /\ RequestAge' = [t \in WatchedTasks |->
                      IF RequestAge[t] > TaskTimeout THEN RequestAge[t]
                      ELSE RequestAge[t] + 1]
  /\ PingRoundDue' = IF PingRoundDue = 0 THEN 0 ELSE PingRoundDue - 1
  /\ UNCHANGED <<ringVars, schedVars, timerVars, irqVars, DataRequestSent,
                 PingMessageCounter, WatchdogInbound, PingInbound,
                 WatchdogLog, Silent, pinged>>

\* Some of the tasks never answer
SilentInit ==
  /\ RingInit /\ SchedInit /\ TimerInit /\ IrqInit
  /\ \E silent \in SUBSET WatchedTasks : WatchdogStart(silent)

WatchdogNext ==
  \/ WatchdogRun
  \/ \E t \in WatchedTasks : TaskEcho(t)
  \/ WatchdogTick

\* The scheduler keeps running TISM_Watchdog and the tasks, and time passes
WatchdogFairness ==
  /\ WF_vars(WatchdogRun)
  /\ WF_vars(WatchdogTick)
  /\ \A t \in WatchedTasks : WF_vars(TaskEcho(t))

SpecWatchdog == SilentInit /\ [][WatchdogNext]_vars /\ WatchdogFairness

\* STOP or illegal state: "System.State=STOP;  // Just to be sure." and on
\* core 0 "gpio_put(SYSTEM_READY_PORT, 0);"
StopEntry(c) ==
  /\ pc[c] = "stop_entry"
  /\ State' = STOP
  /\ SystemReadyPort' = IF c = CORE0 THEN FALSE ELSE SystemReadyPort
  /\ TaskCounter' = IF c = CORE0 THEN NumberOfTasks - 1 ELSE TaskCounter
  /\ pc' = [pc EXCEPT ![c] = IF c = CORE0 THEN "stop_loop" ELSE "stop_rp"]
  /\ UNCHANGED <<ringVars, timerVars, irqVars, watchVars, RunPointer,
               TaskState, TaskSleeping, TaskWakeUpTimer,
               OutboundMessageQueue, InboundMessageQueue,
               IRQHandlerInboundQueue, TaskReceivedMessage, Subscriptions,
               now, ret, bypass, bret, RunPriority, PreviousRunPointer,
               CurrentRunPointer, ThisTask, rv, sends, irqs, warned,
               stopRuns, otherRan, completed, ahead, considered, inCycle,
               initRv, arrived, call, started, gap, SystemNumberOfTasks,
               SystemTask, watched, TaskOutboundMessageQueue, stopOrder>>

\* STOP on core 0: "for(TaskCounter=NumberOfTasks-1;TaskCounter>1;
\* TaskCounter--)", the two stores before the call
StopLoop(c) ==
  /\ pc[c] = "stop_loop"
  /\ IF TaskCounter > 1
       THEN /\ TaskCounter' = TaskCounter - 1
            /\ IF /\ TaskCounter # TISM_EventLoggerTaskID
                  /\ TaskCounter # TISM_PostmanTaskID
                 THEN /\ RunPointer' = [RunPointer EXCEPT ![c] = TaskCounter]
                      /\ TaskState' = [TaskState EXCEPT ![TaskCounter] = STOP]
                      /\ ret' = [ret EXCEPT ![c] = "stop_loop"]
                      /\ pc' = [pc EXCEPT ![c] = "u_call"]
                 ELSE UNCHANGED <<RunPointer, TaskState, ret, pc>>
       ELSE /\ pc' = [pc EXCEPT ![c] = "stop_tail1"]
            /\ UNCHANGED <<TaskCounter, RunPointer, TaskState, ret>>
  /\ UNCHANGED <<ringVars, timerVars, irqVars, watchVars, State, TaskSleeping,
               TaskWakeUpTimer, OutboundMessageQueue, InboundMessageQueue,
               IRQHandlerInboundQueue, TaskReceivedMessage, Subscriptions,
               now, bypass, bret, RunPriority, PreviousRunPointer,
               CurrentRunPointer, ThisTask, rv, sends, irqs, warned,
               stopRuns, otherRan, completed, ahead, considered, inCycle,
               initRv, arrived, call, started, gap, SystemReadyPort,
               SystemNumberOfTasks, SystemTask, watched,
               TaskOutboundMessageQueue, stopOrder>>

\* STOP on core 0: Postman and EventLogger run once more, then once with
\* their task state STOP
StopTail(c) ==
  /\ pc[c] \in {"stop_tail1", "stop_tail2", "stop_tail3", "stop_tail4"}
  /\ IF pc[c] = "stop_tail1"
       THEN /\ RunPointer' = [RunPointer EXCEPT ![c] = TISM_PostmanTaskID]
            /\ ret' = [ret EXCEPT ![c] = "stop_tail2"]
            /\ UNCHANGED TaskState
     ELSE IF pc[c] = "stop_tail2"
       THEN /\ TaskState' = [TaskState EXCEPT ![TISM_PostmanTaskID] = STOP]
            /\ ret' = [ret EXCEPT ![c] = "stop_tail3"]
            /\ UNCHANGED RunPointer
     ELSE IF pc[c] = "stop_tail3"
       THEN /\ RunPointer' = [RunPointer EXCEPT ![c] = TISM_EventLoggerTaskID]
            /\ ret' = [ret EXCEPT ![c] = "stop_tail4"]
            /\ UNCHANGED TaskState
     ELSE /\ TaskState' = [TaskState EXCEPT ![TISM_EventLoggerTaskID] = STOP]
          /\ ret' = [ret EXCEPT ![c] = "stop_down"]
          /\ UNCHANGED RunPointer
  /\ pc' = [pc EXCEPT ![c] = "u_call"]
  /\ UNCHANGED <<ringVars, timerVars, irqVars, watchVars, State, TaskSleeping,
               TaskWakeUpTimer, OutboundMessageQueue, InboundMessageQueue,
               IRQHandlerInboundQueue, TaskReceivedMessage, Subscriptions,
               now, bypass, bret, RunPriority, PreviousRunPointer,
               CurrentRunPointer, TaskCounter, ThisTask, rv, sends, irqs,
               warned, stopRuns, otherRan, completed, ahead, considered,
               inCycle, initRv, arrived, call, started, gap, SystemReadyPort,
               SystemNumberOfTasks, SystemTask, watched,
               TaskOutboundMessageQueue, stopOrder>>

\* STOP on core 1: "System.RunPointer[ThisCoreID]=255;"
StopRunPointer(c) ==
  /\ pc[c] = "stop_rp"
  /\ RunPointer' = [RunPointer EXCEPT ![c] = NoTask]
  /\ pc' = [pc EXCEPT ![c] = "stop_wait"]
  /\ UNCHANGED <<ringVars, timerVars, irqVars, watchVars, State, TaskState,
               TaskSleeping, TaskWakeUpTimer, OutboundMessageQueue,
               InboundMessageQueue, IRQHandlerInboundQueue,
               TaskReceivedMessage, Subscriptions, now, ret, bypass, bret,
               RunPriority, PreviousRunPointer, CurrentRunPointer,
               TaskCounter, ThisTask, rv, sends, irqs, warned, stopRuns,
               otherRan, completed, ahead, considered, inCycle, initRv,
               arrived, call, started, gap, SystemReadyPort,
               SystemNumberOfTasks, SystemTask, watched,
               TaskOutboundMessageQueue, stopOrder>>

\* STOP on core 1: "while(System.State==STOP) sleep_ms(500);" ends
StopWait(c) ==
  /\ pc[c] = "stop_wait"
  /\ State # STOP
  /\ pc' = [pc EXCEPT ![c] = "stop_down"]
  /\ UNCHANGED <<ringVars, timerVars, irqVars, watchVars, State, RunPointer,
               TaskState, TaskSleeping, TaskWakeUpTimer,
               OutboundMessageQueue, InboundMessageQueue,
               IRQHandlerInboundQueue, TaskReceivedMessage, Subscriptions,
               now, ret, bypass, bret, RunPriority, PreviousRunPointer,
               CurrentRunPointer, TaskCounter, ThisTask, rv, sends, irqs,
               warned, stopRuns, otherRan, completed, ahead, considered,
               inCycle, initRv, arrived, call, started, gap, SystemReadyPort,
               SystemNumberOfTasks, SystemTask, watched,
               TaskOutboundMessageQueue, stopOrder>>

\* STOP: "System.State=DOWN; break;"
StopDown(c) ==
  /\ pc[c] = "stop_down"
  /\ State' = DOWN
  /\ pc' = [pc EXCEPT ![c] = "top"]
  /\ UNCHANGED <<ringVars, timerVars, irqVars, watchVars, RunPointer,
               TaskState, TaskSleeping, TaskWakeUpTimer,
               OutboundMessageQueue, InboundMessageQueue,
               IRQHandlerInboundQueue, TaskReceivedMessage, Subscriptions,
               now, ret, bypass, bret, RunPriority, PreviousRunPointer,
               CurrentRunPointer, TaskCounter, ThisTask, rv, sends, irqs,
               warned, stopRuns, otherRan, completed, ahead, considered,
               inCycle, initRv, arrived, call, started, gap, SystemReadyPort,
               SystemNumberOfTasks, SystemTask, watched,
               TaskOutboundMessageQueue, stopOrder>>

\* time_us_64() advances; the clock is read only while the system is in RUN
Tick ==
  /\ State = RUN
  /\ now < MaxTime
  /\ now' = now + 1
  /\ otherRan' = [c \in Cores |-> FALSE]
  /\ UNCHANGED <<ringVars, timerVars, irqVars, watchVars, State, RunPointer,
               TaskState, TaskSleeping, TaskWakeUpTimer,
               OutboundMessageQueue, InboundMessageQueue,
               IRQHandlerInboundQueue, TaskReceivedMessage, Subscriptions,
               pc, ret, bypass, bret, RunPriority, PreviousRunPointer,
               CurrentRunPointer, TaskCounter, ThisTask, rv, sends, irqs,
               warned, stopRuns, completed, ahead, considered, inCycle,
               initRv, arrived, call, started, gap, SystemReadyPort,
               SystemNumberOfTasks, SystemTask, watched,
               TaskOutboundMessageQueue, stopOrder>>

\* TISM_IRQHandlerCallback: an interrupt of the subscribed GPIO
Interrupt ==
  /\ Subscriptions # {}
  /\ irqs < MaxIrqs
  /\ irqs' = irqs + 1
  /\ IRQHandlerInboundQueue' =
       BufferWrite(IRQHandlerInboundQueue,
                   Msg(TISM_IRQHandlerTaskID, TISM_IRQHandlerTaskID, "GPIO", 1, 0))
  /\ UNCHANGED <<ringVars, timerVars, irqVars, watchVars, State, RunPointer,
               TaskState, TaskSleeping, TaskWakeUpTimer,
               OutboundMessageQueue, InboundMessageQueue,
               TaskReceivedMessage, Subscriptions, now, pc, ret, bypass,
               bret, RunPriority, PreviousRunPointer, CurrentRunPointer,
               TaskCounter, ThisTask, rv, sends, warned, stopRuns, otherRan,
               completed, ahead, considered, inCycle, initRv, arrived, call,
               started, gap, SystemReadyPort, SystemNumberOfTasks,
               SystemTask, watched, TaskOutboundMessageQueue, stopOrder>>

\* Both cores; the user tasks send no messages and no interrupt fires
Next ==
  \/ \E c \in Cores : Top(c)
  \/ \E c \in Cores : Switch(c)
  \/ \E c \in Cores : InitLoop(c)
  \/ \E c \in Cores : InitReturn(c)
  \/ \E c \in Cores : UBypass(c)
  \/ \E c \in Cores : UCall(c)
  \/ \E c \in Cores : InitSchedule(c)
  \/ \E c \in Cores : InitWait(c)
  \/ \E c \in Cores : InitEnd(c)
  \/ \E c \in Cores : RunWhile(c)
  \/ \E c \in Cores : Walk(c)
  \/ \E c \in Cores : RTLoop(c)
  \/ \E c \in Cores : RTWait(c)
  \/ \E c \in Cores : TaskRun(c)
  \/ \E c \in Cores : AfterRun(c)
  \/ \E c \in Cores : Bypass(c)
  \/ \E c \in Cores : Deadline(c)
  \/ \E c \in Cores : RunExit(c)
  \/ \E c \in Cores : StopEntry(c)
  \/ \E c \in Cores : StopLoop(c)
  \/ \E c \in Cores : StopTail(c)
  \/ \E c \in Cores : StopRunPointer(c)
  \/ \E c \in Cores : StopWait(c)
  \/ \E c \in Cores : StopDown(c)
  \/ Tick

\* Core 0 alone, core 1 has not yet started; the user tasks send messages
\* and the subscribed interrupt fires
NextMsg ==
  \/ Top(CORE0)
  \/ Switch(CORE0)
  \/ InitLoop(CORE0)
  \/ InitReturn(CORE0)
  \/ UBypass(CORE0)
  \/ UCall(CORE0)
  \/ InitSchedule(CORE0)
  \/ InitEnd(CORE0)
  \/ RunWhile(CORE0)
  \/ Walk(CORE0)
  \/ RTLoop(CORE0)
  \/ TaskRun(CORE0)
  \/ TaskSend(CORE0)
  \/ AfterRun(CORE0)
  \/ Bypass(CORE0)
  \/ Deadline(CORE0)
  \/ Advance(CORE0)
  \/ RunExit(CORE0)
  \/ StopEntry(CORE0)
  \/ StopLoop(CORE0)
  \/ StopTail(CORE0)
  \/ StopDown(CORE0)
  \/ Tick
  \/ Interrupt

Init == RingInit /\ SchedInit /\ TimerInit /\ WatchdogInit /\ IrqInit

Spec == Init /\ [][Next]_vars

\* Both cores; the first user task asks once for the system state DOWN, in
\* a run at the time MaxTime
NextDown ==
  \/ Next
  \/ \E c \in Cores : now = MaxTime /\ TaskSendDown(c)

SpecDown == Init /\ [][NextDown]_vars

SpecMsg == Init /\ [][NextMsg]_vars

\* Core 0 alone as in SpecMsg; ghost: the starts of every task are recorded
PaceInit == RingInit /\ SchedStart(TaskIDs, NumberOfTasks) /\ TimerInit /\ WatchdogInit /\ IrqInit

SpecPace == PaceInit /\ [][NextMsg]_vars

\* One circular buffer; the scheduler of part 2 does not run
SpecRing == Init /\ [][RingNext]_vars

(***************************************************************************)
(* The bypass of Postman and TaskManager on its own: a task has returned   *)
(* on core c with messages in the outbound queues, the last one written on *)
(* core c being TrackedMsg.                                                *)
(***************************************************************************)
TrackedMsg == Msg(FirstUserTask, FirstUserTask + 1, "DATA", 2, 0)
Fillers == {Msg(FirstUserTask, FirstUserTask + 1, "DATA", 1, 0),
            Msg(FirstUserTask + 1, FirstUserTask, "DATA", 1, 0)}
SeqsUpTo(S, n) == UNION {[1 .. k -> S] : k \in 0 .. n}

PostInit ==
  /\ RingInit
  /\ TimerInit /\ WatchdogInit
  /\ IrqInit
  /\ \E c \in Cores :
       \E own \in SeqsUpTo(Fillers, MAX_MESSAGES - 2),
          other \in SeqsUpTo(Fillers, MAX_MESSAGES - 1) :
         /\ OutboundMessageQueue =
              [d \in Cores |-> IF d = c THEN Append(own, TrackedMsg) ELSE other]
         /\ ahead = Len(own) + (IF c = CORE1 THEN Len(other) ELSE 0)
         /\ pc = [d \in Cores |-> IF d = c THEN "bypass" ELSE "top"]
         /\ bypass = [d \in Cores |->
              IF d = c THEN <<TISM_PostmanTaskID, TISM_TaskManagerTaskID>>
                       ELSE <<>>]
         /\ bret = [d \in Cores |-> IF d = c THEN "deadline" ELSE "none"]
         /\ RunPointer = [d \in Cores |-> IF d = c THEN FirstUserTask ELSE NoTask]
         /\ PreviousRunPointer =
              [d \in Cores |-> IF d = c THEN FirstUserTask ELSE NoTask]
  /\ State = RUN
  /\ TaskState = [t \in TaskIDs |-> RUN]
  /\ TaskSleeping = [t \in TaskIDs |-> t # 0 /\ IsSystemTask(t)]
  /\ TaskWakeUpTimer = [t \in TaskIDs |-> 0]
  /\ InboundMessageQueue = [t \in TaskIDs |-> <<>>]
  /\ IRQHandlerInboundQueue = <<>>
  /\ TaskReceivedMessage = {}
  /\ Subscriptions = {}
  /\ now = 0
  /\ ret = [c \in Cores |-> "none"]
  /\ RunPriority = [c \in Cores |-> PRIORITY_HIGH]
  /\ CurrentRunPointer = [c \in Cores |-> NoTask]
  /\ TaskCounter = NumberOfTasks
  /\ ThisTask = [c \in Cores |-> NoThisTask]
  /\ rv = [c \in Cores |-> OK]
  /\ sends = 0
  /\ irqs = 0
  /\ warned = {}
  /\ stopRuns = [t \in TaskIDs |-> 0]
  /\ otherRan = [c \in Cores |-> FALSE]
  /\ completed = [c \in Cores |-> 0]
  /\ considered = [c \in Cores |-> [t \in TaskIDs |-> 0]]
  /\ inCycle = [c \in Cores |-> "none"]
  /\ initRv = [t \in TaskIDs |-> IF t = 0 THEN "none" ELSE "ok"]
  /\ arrived = <<>>
  /\ call = NoCall
  /\ started = [t \in TaskIDs |-> Unset]
  /\ gap = [t \in TaskIDs |-> Unset]
  /\ stopOrder = <<>>
  /\ TaskOutboundMessageQueue = [t \in TaskIDs |-> CORE0]
  /\ SystemReadyPort = TRUE
  /\ SystemNumberOfTasks = NumberOfTasks
  /\ SystemTask = RegisteredTasks(NumberOfTasks)
  /\ watched = {}

NextPost ==
  \/ \E c \in Cores : Bypass(c)
  \/ \E c \in Cores : RTLoop(c)
  \/ \E c \in Cores : TaskRun(c)

SpecPost == PostInit /\ [][NextPost]_vars

(***************************************************************************)
(* The same bypass with mailboxes that hold messages already: the mailbox  *)
(* of the second user task holds up to MAX_MESSAGES - 1 messages, which is *)
(* all it can hold, and the outbound queue of core c holds TrackedMsg for  *)
(* that task with at most one message for the first user task before it or *)
(* behind it.                                                             *)
(***************************************************************************)
OldMsg == Msg(FirstUserTask, FirstUserTask + 1, "DATA", 0, 0)
BeforeMsg == Msg(FirstUserTask + 1, FirstUserTask, "DATA", 1, 0)
AfterMsg == Msg(FirstUserTask + 1, FirstUserTask, "DATA", 3, 0)

\* The state in which core c starts the bypass with own in its outbound
\* queue and old in the mailbox of the second user task
BypassStart(c, own, old, n) ==
  /\ OutboundMessageQueue = [d \in Cores |-> IF d = c THEN own ELSE <<>>]
  /\ InboundMessageQueue =
       [t \in TaskIDs |-> IF t = FirstUserTask + 1 THEN old ELSE <<>>]
  /\ ahead = n
  /\ pc = [d \in Cores |-> IF d = c THEN "bypass" ELSE "top"]
  /\ bypass = [d \in Cores |->
       IF d = c THEN <<TISM_PostmanTaskID, TISM_TaskManagerTaskID>> ELSE <<>>]
  /\ bret = [d \in Cores |-> IF d = c THEN "deadline" ELSE "none"]
  /\ RunPointer = [d \in Cores |-> IF d = c THEN FirstUserTask ELSE NoTask]
  /\ PreviousRunPointer =
       [d \in Cores |-> IF d = c THEN FirstUserTask ELSE NoTask]
  /\ State = RUN
  /\ TaskState = [t \in TaskIDs |-> RUN]
  /\ TaskSleeping = [t \in TaskIDs |-> t # 0 /\ IsSystemTask(t)]
  /\ TaskWakeUpTimer = [t \in TaskIDs |-> 0]
  /\ IRQHandlerInboundQueue = <<>>
  /\ TaskReceivedMessage = {}
  /\ Subscriptions = {}
  /\ now = 0
  /\ ret = [d \in Cores |-> "none"]
  /\ RunPriority = [d \in Cores |-> PRIORITY_HIGH]
  /\ CurrentRunPointer = [d \in Cores |-> NoTask]
  /\ TaskCounter = NumberOfTasks
  /\ ThisTask = [d \in Cores |-> NoThisTask]
  /\ rv = [d \in Cores |-> OK]
  /\ sends = 0
  /\ irqs = 0
  /\ warned = {}
  /\ stopRuns = [t \in TaskIDs |-> 0]
  /\ otherRan = [d \in Cores |-> FALSE]
  /\ completed = [d \in Cores |-> 0]
  /\ considered = [d \in Cores |-> [t \in TaskIDs |-> 0]]
  /\ inCycle = [d \in Cores |-> "none"]
  /\ initRv = [t \in TaskIDs |-> IF t = 0 THEN "none" ELSE "ok"]
  /\ arrived = <<>>
  /\ call = NoCall
  /\ started = [t \in TaskIDs |-> Unset]
  /\ gap = [t \in TaskIDs |-> Unset]
  /\ stopOrder = <<>>
  /\ TaskOutboundMessageQueue = [t \in TaskIDs |-> CORE0]
  /\ SystemReadyPort = TRUE
  /\ SystemNumberOfTasks = NumberOfTasks
  /\ SystemTask = RegisteredTasks(NumberOfTasks)
  /\ watched = {}

FullInit ==
  /\ RingInit
  /\ TimerInit /\ WatchdogInit
  /\ IrqInit
  /\ \E c \in Cores :
       \E before \in SeqsUpTo({BeforeMsg}, 1), behind \in SeqsUpTo({AfterMsg}, 1),
          old \in SeqsUpTo({OldMsg}, MAX_MESSAGES - 1) :
         /\ Len(before) + 1 + Len(behind) <= MAX_MESSAGES - 1
         /\ BypassStart(c, before \o <<TrackedMsg>> \o behind, old, Len(before))

SpecFull == FullInit /\ [][NextPost]_vars

\* A record whose recipient is task id 255, written by a user task
StrayMsg == Msg(FirstUserTask, NoTask, "DATA", 4, 0)

\* The bypass with StrayMsg in the outbound queue of core c
StrayInit ==
  /\ RingInit
  /\ TimerInit /\ WatchdogInit
  /\ IrqInit
  /\ \E c \in Cores :
       \E before \in SeqsUpTo({BeforeMsg}, 1), behind \in SeqsUpTo({AfterMsg}, 1),
          old \in SeqsUpTo({OldMsg}, MAX_MESSAGES - 1) :
         /\ Len(before) + 1 + Len(behind) <= MAX_MESSAGES - 1
         /\ BypassStart(c, before \o <<StrayMsg>> \o behind, old, Len(before))

SpecStray == StrayInit /\ [][NextPost]_vars

(***************************************************************************)
(* Postman and a sender at work on one outbound queue.  The circular       *)
(* buffer of part 1 is OutboundMessageQueue[CORE1]: its producer is a user *)
(* task on core 1 that writes records for the second user task, its        *)
(* consumer is Postman on core 0, which writes each record it reads to the *)
(* mailbox of that task before it deletes it.  Between two invocations of  *)
(* Postman the second user task may run on core 0 and read its mailbox.    *)
(***************************************************************************)
Recipient == FirstUserTask + 1

\* TISM_Postman: "MessageToProcess=TISM_CircularBufferRead(
\* &OutboundMessageQueue[CoreCounter]);" when a message is waiting
PostmanRead ==
  /\ cpc = "idle"
  /\ Len(popped) <= MaxWrites
  /\ MessagesWaiting(BufHead, BufTail) # 0
  /\ got' = Message[BufTail]
  /\ cpc' = "deliver"
  /\ UNCHANGED <<schedVars, timerVars, watchVars, irqVars, BufHead, BufTail, Message, ppc,
                 nextVal, lastWrite, written, popped, unread, overwrote>>

\* TISM_Postman: TISM_CircularBufferWrite to the mailbox of the recipient
\* with the fields MessageToProcess points to; a warning when it fails
PostmanDeliver ==
  /\ cpc = "deliver"
  /\ LET m == Msg(FirstUserTask, Recipient, "DATA", got.id, got.payload)
     IN IF SlotsAvailable(Len(InboundMessageQueue[Recipient]), 0) > 0
          THEN /\ InboundMessageQueue' =
                    [InboundMessageQueue EXCEPT ![Recipient] = Append(@, m)]
               /\ arrived' = Append(arrived, got.id)
               /\ TaskReceivedMessage' = TaskReceivedMessage \cup {Recipient}
               /\ UNCHANGED warned
          ELSE /\ warned' = warned \cup {m}
               /\ UNCHANGED <<InboundMessageQueue, arrived, TaskReceivedMessage>>
  /\ cpc' = "delete"
  /\ UNCHANGED <<BufHead, BufTail, Message, ppc, nextVal, lastWrite, got,
                 written, popped, unread, overwrote>>
  /\ UNCHANGED <<timerVars, irqVars, watchVars, State, RunPointer, TaskState,
               TaskSleeping, TaskWakeUpTimer, OutboundMessageQueue,
               IRQHandlerInboundQueue, Subscriptions, now, pc, ret, bypass,
               bret, RunPriority, PreviousRunPointer, CurrentRunPointer,
               TaskCounter, ThisTask, rv, sends, irqs, stopRuns, otherRan,
               completed, ahead, considered, inCycle, initRv, call, started,
               gap, SystemReadyPort, SystemNumberOfTasks, SystemTask,
               watched, TaskOutboundMessageQueue, stopOrder>>

\* The recipient runs and reads one message of its mailbox
RecipientReads ==
  /\ cpc = "idle"
  /\ Len(InboundMessageQueue[Recipient]) > 0
  /\ InboundMessageQueue' = [InboundMessageQueue EXCEPT ![Recipient] = Tail(@)]
  /\ UNCHANGED ringVars
  /\ UNCHANGED <<timerVars, irqVars, watchVars, State, RunPointer, TaskState,
               TaskSleeping, TaskWakeUpTimer, OutboundMessageQueue,
               IRQHandlerInboundQueue, TaskReceivedMessage, Subscriptions,
               now, pc, ret, bypass, bret, RunPriority, PreviousRunPointer,
               CurrentRunPointer, TaskCounter, ThisTask, rv, sends, irqs,
               warned, stopRuns, otherRan, completed, ahead, considered,
               inCycle, initRv, arrived, call, started, gap, SystemReadyPort,
               SystemNumberOfTasks, SystemTask, watched,
               TaskOutboundMessageQueue, stopOrder>>

DeliverNext ==
  \/ WriteCheckFree
  \/ WriteCheckFull
  \/ WriteFill1
  \/ WriteFill2
  \/ WriteInc
  \/ WriteWrap
  \/ PostmanRead
  \/ PostmanDeliver
  \/ DeleteInc
  \/ DeleteWrap
  \/ RecipientReads

SpecDeliver == Init /\ [][DeliverNext]_vars

\* The software timers alone: the scheduler of part 2 does not run
SpecTimer == Init /\ [][TimerNext]_vars

\* The clock advances, past the deadlines of two timers set one after the
\* other
ClockTick ==
  /\ time_us_64 + TickUsec <= LiveClock
  /\ time_us_64' = time_us_64 + TickUsec
  /\ UNCHANGED <<ringVars, schedVars, irqVars, watchVars, Entries, SequenceCounter,
                 TimerInbox, TimerWakeUp, TimerSleeping, setpc, setreg, held,
                 notified, cancelled, examined, scanned>>

\* One task, on core 0, sets and cancels the timers
TimerLiveNext ==
  \/ SetLoad(CORE0)
  \/ SetStore(CORE0)
  \/ SetSend(CORE0)
  \/ Cancel(CORE0)
  \/ CancelBySequenceNr(CORE0)
  \/ ClockTick
  \/ TimerRun

\* The scheduler is a loop without end ("while(System.State!=DOWN)", with
\* the run pointer going round the tasks): a task that is awake and whose
\* wake-up time has come is started, and the clock of the hardware goes on.
TimerFairness == WF_vars(TimerRun) /\ WF_vars(ClockTick)

\* The software timers with time that goes on and a scheduler that goes on
SpecTimerLive == Init /\ [][TimerLiveNext]_vars /\ TimerFairness

\* The subscriptions of TISM_IRQHandler alone
SpecIrq == Init /\ [][IrqNext]_vars

\* The anti-bounce window of the subscriptions
SpecBounce == Init /\ [][BounceNext]_vars

(***************************************************************************)
(* Part 5: calls of TISM_TaskManagerSetTaskAttribute on their own.  A task *)
(* calls the function with any arguments; then Postman takes the messages  *)
(* out of the outbound queues.                                             *)
(***************************************************************************)
\* A task, of the system or of the user, running on core c calls
\* TISM_TaskManagerSetTaskAttribute
AttrCall(c) ==
  /\ call = NoCall
  /\ \E caller \in 1 .. (NumberOfTasks - 1), target \in TaskIDs \cup {NoTask},
        attribute \in Attributes \cup {"UNKNOWN"}, setting \in {0, 1} :
       LET tt == [TaskID |-> caller, TaskState |-> RUN,
                  OutboundMessageQueue |-> c]
       IN /\ OutboundMessageQueue' =
               SetTaskAttribute(World, tt, target, attribute, setting).out
          /\ call' = [op |-> "SetTaskAttribute", core |-> c, caller |-> caller,
                      target |-> target, attribute |-> attribute,
                      setting |-> setting,
                      rv |-> SetTaskAttributeReturn(tt, target, attribute)]
  /\ UNCHANGED <<ringVars, timerVars, irqVars, watchVars, State, RunPointer,
               TaskState, TaskSleeping, TaskWakeUpTimer, InboundMessageQueue,
               IRQHandlerInboundQueue, TaskReceivedMessage, Subscriptions,
               now, pc, ret, bypass, bret, RunPriority, PreviousRunPointer,
               CurrentRunPointer, TaskCounter, ThisTask, rv, sends, irqs,
               warned, stopRuns, otherRan, completed, ahead, considered,
               inCycle, initRv, arrived, started, gap, SystemReadyPort,
               SystemNumberOfTasks, SystemTask, watched,
               TaskOutboundMessageQueue, stopOrder>>

\* Postman has emptied the outbound queues
AttrDone ==
  /\ call # NoCall
  /\ call' = NoCall
  /\ OutboundMessageQueue' = [d \in Cores |-> <<>>]
  /\ UNCHANGED <<ringVars, timerVars, irqVars, watchVars, State, RunPointer,
               TaskState, TaskSleeping, TaskWakeUpTimer, InboundMessageQueue,
               IRQHandlerInboundQueue, TaskReceivedMessage, Subscriptions,
               now, pc, ret, bypass, bret, RunPriority, PreviousRunPointer,
               CurrentRunPointer, TaskCounter, ThisTask, rv, sends, irqs,
               warned, stopRuns, otherRan, completed, ahead, considered,
               inCycle, initRv, arrived, started, gap, SystemReadyPort,
               SystemNumberOfTasks, SystemTask, watched,
               TaskOutboundMessageQueue, stopOrder>>

AttrNext ==
  \/ \E c \in Cores : AttrCall(c)
  \/ AttrDone

SpecAttr == Init /\ [][AttrNext]_vars

\* The user task of core c calls TISM_TaskManagerSetTaskAttribute for a user
\* task, whatever the outbound queue of the core holds; ghost: the number of
\* records the call has added to the queue
AttrRequest(c) ==
  \E target \in UserTasks, attribute \in {"SET_TASK_SLEEP", "SET_TASK_DEBUG"},
     setting \in {0, 1} :
    LET tt == [TaskID |-> FirstUserTask + c, TaskState |-> RUN,
               OutboundMessageQueue |-> c]
        out == SetTaskAttribute(World, tt, target, attribute, setting).out
    IN /\ OutboundMessageQueue' = out
       /\ call' = [op |-> "SetTaskAttribute", core |-> c,
                   caller |-> tt.TaskID, target |-> target,
                   attribute |-> attribute, setting |-> setting,
                   rv |-> SetTaskAttributeReturn(tt, target, attribute),
                   before |-> Len(OutboundMessageQueue[c]),
                   queued |-> Len(out[c]) - Len(OutboundMessageQueue[c])]
       /\ UNCHANGED <<ringVars, timerVars, irqVars, watchVars, State, RunPointer,
               TaskState, TaskSleeping, TaskWakeUpTimer, InboundMessageQueue,
               IRQHandlerInboundQueue, TaskReceivedMessage, Subscriptions,
               now, pc, ret, bypass, bret, RunPriority, PreviousRunPointer,
               CurrentRunPointer, TaskCounter, ThisTask, rv, sends, irqs,
               warned, stopRuns, otherRan, completed, ahead, considered,
               inCycle, initRv, arrived, started, gap, SystemReadyPort,
               SystemNumberOfTasks, SystemTask, watched,
               TaskOutboundMessageQueue, stopOrder>>

AttrFullNext ==
  \/ \E c \in Cores : AttrRequest(c)
  \/ AttrDone

\* Calls of TISM_TaskManagerSetTaskAttribute while the outbound queue fills
SpecAttrFull == Init /\ [][AttrFullNext]_vars

(***************************************************************************)
(* Part 6: the requests to TaskManager on their own.  The system is in     *)
(* state RUN; user tasks call TISM_TaskManagerSetTaskAttribute, Postman    *)
(* delivers what they wrote and TaskManager processes its mailbox.         *)
(***************************************************************************)
\* The system after the INIT pass of TISM_Scheduler: every task in state
\* RUN, Postman, IRQHandler, TaskManager and the event logger asleep
RunningInit ==
  /\ RingInit
  /\ TimerInit /\ WatchdogInit
  /\ IrqInit
  /\ State = RUN
  /\ RunPointer = [c \in Cores |-> NoTask]
  /\ TaskState = [t \in TaskIDs |-> RUN]
  /\ TaskSleeping = [t \in TaskIDs |-> t # 0 /\ IsSystemTask(t)]
  /\ TaskWakeUpTimer = [t \in TaskIDs |-> 0]
  /\ OutboundMessageQueue = [c \in Cores |-> <<>>]
  /\ InboundMessageQueue = [t \in TaskIDs |-> <<>>]
  /\ IRQHandlerInboundQueue = <<>>
  /\ TaskReceivedMessage = {}
  /\ Subscriptions = {}
  /\ now = 0
  /\ pc = [c \in Cores |-> "top"]
  /\ ret = [c \in Cores |-> "none"]
  /\ bypass = [c \in Cores |-> <<>>]
  /\ bret = [c \in Cores |-> "none"]
  /\ RunPriority = [c \in Cores |-> PRIORITY_HIGH]
  /\ PreviousRunPointer = [c \in Cores |-> NoTask]
  /\ CurrentRunPointer = [c \in Cores |-> NoTask]
  /\ TaskCounter = NumberOfTasks
  /\ ThisTask = [c \in Cores |-> NoThisTask]
  /\ rv = [c \in Cores |-> OK]
  /\ sends = 0
  /\ irqs = 0
  /\ warned = {}
  /\ stopRuns = [t \in TaskIDs |-> 0]
  /\ otherRan = [c \in Cores |-> FALSE]
  /\ completed = [c \in Cores |-> 0]
  /\ ahead = 0
  /\ considered = [c \in Cores |-> [t \in TaskIDs |-> 0]]
  /\ inCycle = [c \in Cores |-> "none"]
  /\ initRv = [t \in TaskIDs |-> IF t = 0 THEN "none" ELSE "ok"]
  /\ arrived = <<>>
  /\ call = NoCall
  /\ started = [t \in TaskIDs |-> Unset]
  /\ gap = [t \in TaskIDs |-> Unset]
  /\ stopOrder = <<>>
  /\ TaskOutboundMessageQueue = [t \in TaskIDs |-> CORE0]
  /\ SystemReadyPort = TRUE
  /\ SystemNumberOfTasks = NumberOfTasks
  /\ SystemTask = RegisteredTasks(NumberOfTasks)
  /\ watched = {}

\* The task struct of task t in state RUN on core c
RunningTask(t, c) ==
  [TaskID |-> t, TaskState |-> RUN, OutboundMessageQueue |-> c]

\* The shared data w written back to System and the queues
WriteBack(w) ==
  /\ State' = w.State
  /\ TaskState' = w.TaskState
  /\ TaskSleeping' = w.TaskSleeping
  /\ TaskWakeUpTimer' = w.TaskWakeUpTimer
  /\ OutboundMessageQueue' = w.out
  /\ InboundMessageQueue' = w.inb
  /\ IRQHandlerInboundQueue' = w.irq
  /\ TaskReceivedMessage' = w.recv
  /\ Subscriptions' = w.sub
  /\ warned' = w.warned

\* The user task of core c asks for the system to be dedicated to a user
\* task, with the Setting the interface documents (0) or the task's id, or
\* asks for a user task to sleep or to wake
DedicateRequest(c) ==
  /\ sends < MaxSends
  /\ \E target \in UserTasks, attribute \in {"DEDICATE_TO_TASK", "SET_TASK_SLEEP"} :
       \E setting \in IF attribute = "DEDICATE_TO_TASK" THEN {0, target} ELSE {0, 1} :
         OutboundMessageQueue' =
           SetTaskAttribute(World, RunningTask(FirstUserTask + c, c), target,
                            attribute, setting).out
  /\ sends' = sends + 1
  /\ call' = NoCall
  /\ UNCHANGED <<ringVars, timerVars, irqVars, watchVars, State, RunPointer,
               TaskState, TaskSleeping, TaskWakeUpTimer, InboundMessageQueue,
               IRQHandlerInboundQueue, TaskReceivedMessage, Subscriptions,
               now, pc, ret, bypass, bret, RunPriority, PreviousRunPointer,
               CurrentRunPointer, TaskCounter, ThisTask, rv, irqs, warned,
               stopRuns, otherRan, completed, ahead, considered, inCycle,
               initRv, arrived, started, gap, SystemReadyPort,
               SystemNumberOfTasks, SystemTask, watched,
               TaskOutboundMessageQueue, stopOrder>>

\* One invocation of TISM_Postman in state RUN, on core c
PostmanRuns(c) ==
  /\ \E d \in Cores : OutboundMessageQueue[d] # <<>>
  /\ WriteBack(TISM_Postman(World, RunningTask(TISM_PostmanTaskID, c)))
  /\ call' = NoCall
  /\ UNCHANGED <<ringVars, timerVars, watchVars, irqVars, RunPointer, now, pc, ret, bypass,
                 bret, RunPriority, PreviousRunPointer, CurrentRunPointer,
                 TaskCounter, ThisTask, rv, sends, irqs, stopRuns, otherRan,
                 completed, ahead, considered, inCycle, initRv, arrived,
                 started, gap, watched, stopOrder, TaskOutboundMessageQueue,
                 SystemNumberOfTasks,
                 SystemTask, SystemReadyPort>>

\* The records TISM_TaskManager processes in one invocation, each with the
\* sleeping flags before and after it
RECURSIVE TaskManagerSteps(_, _, _)
TaskManagerSteps(w, tt, time) ==
  IF Len(w.inb[TISM_TaskManagerTaskID]) > 0 /\ w.cnt < MAX_MESSAGES
    THEN LET m == Head(w.inb[TISM_TaskManagerTaskID])
             w1 == TaskManagerProcess(w, tt, m, time)
         IN <<[m |-> m, before |-> w.TaskSleeping, after |-> w1.TaskSleeping,
               logged |-> w1.out # w.out]>>
              \o TaskManagerSteps([w1 EXCEPT !.inb[TISM_TaskManagerTaskID] = Tail(@),
                                             !.cnt = @ + 1], tt, time)
    ELSE <<>>

\* One invocation of TISM_TaskManager in state RUN, on core c
TaskManagerRuns(c) ==
  /\ InboundMessageQueue[TISM_TaskManagerTaskID] # <<>>
  /\ WriteBack(TISM_TaskManager(World, RunningTask(TISM_TaskManagerTaskID, c), now))
  /\ call' = [op |-> "TaskManager",
              steps |-> TaskManagerSteps(World,
                          RunningTask(TISM_TaskManagerTaskID, c), now)]
  /\ UNCHANGED <<ringVars, timerVars, watchVars, irqVars, RunPointer, now, pc, ret, bypass,
                 bret, RunPriority, PreviousRunPointer, CurrentRunPointer,
                 TaskCounter, ThisTask, rv, sends, irqs, stopRuns, otherRan,
                 completed, ahead, considered, inCycle, initRv, arrived,
                 started, gap, watched, stopOrder, TaskOutboundMessageQueue,
                 SystemNumberOfTasks,
                 SystemTask, SystemReadyPort>>

DedicateNext ==
  \/ \E c \in Cores : DedicateRequest(c)
  \/ \E c \in Cores : PostmanRuns(c)
  \/ \E c \in Cores : TaskManagerRuns(c)

SpecDedicate == RunningInit /\ [][DedicateNext]_vars

\* What a user task does at the end of a RUN invocation in which it has
\* emptied its mailbox: send a message to the other user task, subscribe to
\* the GPIO, or ask to be put to sleep
StrandActions ==
  {[kind |-> "subscribe"], [kind |-> "sleep"]}
  \cup {[kind |-> "data", to |-> u] : u \in UserTasks}

\* The scheduler of core c starts the user task of that core, which is
\* awake, and the task empties its mailbox
TaskReads(c) ==
  /\ ThisTask[c] = NoThisTask
  /\ ~TaskSleeping[FirstUserTask + c]
  /\ sends < MAX_MESSAGES
  /\ ThisTask' = [ThisTask EXCEPT ![c] = RunningTask(FirstUserTask + c, c)]
  /\ InboundMessageQueue' =
       DrainOwnInbox(World, FirstUserTask + c).inb
  /\ call' = NoCall
  /\ UNCHANGED <<ringVars, timerVars, irqVars, watchVars, State, RunPointer,
               TaskState, TaskSleeping, TaskWakeUpTimer,
               OutboundMessageQueue, IRQHandlerInboundQueue,
               TaskReceivedMessage, Subscriptions, now, pc, ret, bypass,
               bret, RunPriority, PreviousRunPointer, CurrentRunPointer,
               TaskCounter, rv, sends, irqs, warned, stopRuns, otherRan,
               completed, ahead, considered, inCycle, initRv, arrived,
               started, gap, SystemReadyPort, SystemNumberOfTasks,
               SystemTask, watched, TaskOutboundMessageQueue, stopOrder>>

\* The user task of core c does the rest of its invocation and returns
TaskWrites(c) ==
  /\ ThisTask[c] # NoThisTask
  /\ \E act \in StrandActions :
       /\ act.kind = "data" => act.to # ThisTask[c].TaskID
       /\ OutboundMessageQueue' =
            UserTask(World, ThisTask[c], act).out
  /\ ThisTask' = [ThisTask EXCEPT ![c] = NoThisTask]
  /\ sends' = sends + 1
  /\ call' = NoCall
  /\ UNCHANGED <<ringVars, timerVars, irqVars, watchVars, State, RunPointer,
               TaskState, TaskSleeping, TaskWakeUpTimer, InboundMessageQueue,
               IRQHandlerInboundQueue, TaskReceivedMessage, Subscriptions,
               now, pc, ret, bypass, bret, RunPriority, PreviousRunPointer,
               CurrentRunPointer, TaskCounter, rv, irqs, warned, stopRuns,
               otherRan, completed, ahead, considered, inCycle, initRv,
               arrived, started, gap, SystemReadyPort, SystemNumberOfTasks,
               SystemTask, watched, TaskOutboundMessageQueue, stopOrder>>

StrandNext ==
  \/ \E c \in Cores : TaskReads(c)
  \/ \E c \in Cores : TaskWrites(c)
  \/ \E c \in Cores : PostmanRuns(c)
  \/ \E c \in Cores : TaskManagerRuns(c)

SpecStrand == RunningInit /\ [][StrandNext]_vars

(***************************************************************************)
(* Part 7: TISM_RegisterTask on its own.  The task table is empty, as      *)
(* TISM_InitializeSystem makes it; tasks are registered while the system   *)
(* state goes from INIT to DOWN.                                           *)
(***************************************************************************)
Priorities == {PRIORITY_HIGH, PRIORITY_NORMAL, PRIORITY_LOW}

\* mutant of TableFull: one registration more is let through
TableFullOffByOne(n) == n > MAX_TASKS

\* TISM_RegisterTask: "if(System.NumberOfTasks>=MAX_TASKS)"
TableFull(n) == n >= MAX_TASKS

\* TISM_RegisterTask, called in any system state
RegisterTask ==
  /\ \E priority \in Priorities :
       IF TableFull(SystemNumberOfTasks)
         THEN /\ call' = [op |-> "RegisterTask", state |-> State,
                          count |-> SystemNumberOfTasks, table |-> SystemTask,
                          priority |-> priority, rv |-> ERR_TOO_MANY_TASKS]
              /\ UNCHANGED <<SystemTask, SystemNumberOfTasks>>
         ELSE /\ SystemTask' =
                   [i \in DOMAIN SystemTask |->
                      IF i = SystemNumberOfTasks
                        THEN NewTask(SystemNumberOfTasks, priority)
                        ELSE SystemTask[i]]
              /\ SystemNumberOfTasks' = SystemNumberOfTasks + 1
              /\ call' = [op |-> "RegisterTask", state |-> State,
                          count |-> SystemNumberOfTasks, table |-> SystemTask,
                          priority |-> priority, rv |-> OK]
  /\ UNCHANGED <<ringVars, timerVars, irqVars, watchVars, State, RunPointer,
               TaskState, TaskSleeping, TaskWakeUpTimer,
               OutboundMessageQueue, InboundMessageQueue,
               IRQHandlerInboundQueue, TaskReceivedMessage, Subscriptions,
               now, pc, ret, bypass, bret, RunPriority, PreviousRunPointer,
               CurrentRunPointer, TaskCounter, ThisTask, rv, sends, irqs,
               warned, stopRuns, otherRan, completed, ahead, considered,
               inCycle, initRv, arrived, started, gap, SystemReadyPort,
               watched, TaskOutboundMessageQueue, stopOrder>>

\* The system state moves on: TISM_Scheduler ends its INIT pass, a request
\* or an error ends RUN, the STOP pass ends
StateMovesOn ==
  /\ State > DOWN
  /\ State' = IF State = INIT THEN RUN ELSE State - 1
  /\ call' = NoCall
  /\ UNCHANGED <<ringVars, timerVars, irqVars, watchVars, RunPointer,
               TaskState, TaskSleeping, TaskWakeUpTimer,
               OutboundMessageQueue, InboundMessageQueue,
               IRQHandlerInboundQueue, TaskReceivedMessage, Subscriptions,
               now, pc, ret, bypass, bret, RunPriority, PreviousRunPointer,
               CurrentRunPointer, TaskCounter, ThisTask, rv, sends, irqs,
               warned, stopRuns, otherRan, completed, ahead, considered,
               inCycle, initRv, arrived, started, gap, SystemReadyPort,
               SystemNumberOfTasks, SystemTask, watched,
               TaskOutboundMessageQueue, stopOrder>>

RegisterNext ==
  \/ RegisterTask
  \/ StateMovesOn

RegisterInit == RingInit /\ SchedStart({}, 0) /\ TimerInit /\ WatchdogInit /\ IrqInit

SpecRegister == RegisterInit /\ [][RegisterNext]_vars

(***************************************************************************)
(* Part 8: TISM_IRQHandlerCallback on both cores.  Each callback writes    *)
(* one record to the IRQHandlerInboundQueue with the circular buffer code  *)
(* of part 1; TISM_IRQHandler is the consumer of part 1.  Here ppc and     *)
(* lastWrite hold one entry per core, and ppc[c].val is the record the     *)
(* callback on core c is writing.                                          *)
(***************************************************************************)
CallbackIdle == [at |-> "idle", val |-> 0]

CallbackInit ==
  /\ BufHead = 0
  /\ BufTail = 0
  /\ Message = [i \in Slots |-> EmptyRecord]
  /\ ppc = [c \in Cores |-> CallbackIdle]
  /\ cpc = "idle"
  /\ nextVal = 1
  /\ lastWrite = [c \in Cores |-> "none"]
  /\ got = EmptyRecord
  /\ written = <<>>
  /\ popped = <<>>
  /\ unread = {}
  /\ overwrote = FALSE
  /\ SchedInit
  /\ TimerInit /\ WatchdogInit
  /\ IrqInit

\* An interrupt fires on core c: TISM_IRQHandlerCallback,
\* "if(TISM_CircularBufferSlotsAvailable(Buffer)>0)", or "return (false)"
CallbackCheck(c) ==
  /\ ppc[c].at = "idle"
  /\ nextVal <= MaxCallbacks
  /\ nextVal' = nextVal + 1
  /\ IF SlotsAvailable(BufHead, BufTail) > 0
       THEN /\ ppc' = [ppc EXCEPT ![c] = [at |-> "fill1", val |-> nextVal]]
            /\ lastWrite' = [lastWrite EXCEPT ![c] = "none"]
       ELSE /\ lastWrite' = [lastWrite EXCEPT ![c] = "full"]
            /\ UNCHANGED ppc
  /\ UNCHANGED <<schedVars, timerVars, watchVars, irqVars, BufHead, BufTail, Message,
                 cpc, got, written, popped, unread, overwrote>>

\* The first fields of Buffer->Message[Buffer->Head] are stored
CallbackFill1(c) ==
  /\ ppc[c].at = "fill1"
  /\ Message' = [Message EXCEPT ![BufHead].id = ppc[c].val]
  /\ overwrote' = (overwrote \/ BufHead \in unread)
  /\ unread' = unread \cup {BufHead}
  /\ ppc' = [ppc EXCEPT ![c].at = "fill2"]
  /\ UNCHANGED <<schedVars, timerVars, watchVars, irqVars, BufHead, BufTail, cpc,
                 nextVal, lastWrite, got, written, popped>>

\* The remaining fields are stored
CallbackFill2(c) ==
  /\ ppc[c].at = "fill2"
  /\ Message' = [Message EXCEPT ![BufHead].payload = ppc[c].val]
  /\ ppc' = [ppc EXCEPT ![c].at = "inc"]
  /\ UNCHANGED <<schedVars, timerVars, watchVars, irqVars, BufHead, BufTail, cpc,
                 nextVal, lastWrite, got, written, popped, unread, overwrote>>

\* "Buffer->Head++;"
CallbackInc(c) ==
  /\ ppc[c].at = "inc"
  /\ BufHead' = BufHead + 1
  /\ ppc' = [ppc EXCEPT ![c].at = "wrap"]
  /\ UNCHANGED <<schedVars, timerVars, watchVars, irqVars, BufTail, Message, cpc,
                 nextVal, lastWrite, got, written, popped, unread, overwrote>>

\* "if(Buffer->Head==MAX_MESSAGES) Buffer->Head=0;" and "return(true)"
CallbackWrap(c) ==
  /\ ppc[c].at = "wrap"
  /\ BufHead' = IF BufHead = MAX_MESSAGES THEN 0 ELSE BufHead
  /\ written' = Append(written, ppc[c].val)
  /\ lastWrite' = [lastWrite EXCEPT ![c] = "ok"]
  /\ ppc' = [ppc EXCEPT ![c] = CallbackIdle]
  /\ UNCHANGED <<schedVars, timerVars, watchVars, irqVars, BufTail, Message, cpc,
                 nextVal, got, popped, unread, overwrote>>

CallbackNext ==
  \/ \E c \in Cores : CallbackCheck(c)
  \/ \E c \in Cores : CallbackFill1(c)
  \/ \E c \in Cores : CallbackFill2(c)
  \/ \E c \in Cores : CallbackInc(c)
  \/ \E c \in Cores : CallbackWrap(c)
  \/ ReadSome
  \/ DeleteInc
  \/ DeleteWrap

SpecCallback == CallbackInit /\ [][CallbackNext]_vars

(***************************************************************************)
(* Part 9: the subscriptions of TISM_IRQHandler in the version that keeps  *)
(* a host id with every record and every message.  The requests come from  *)
(* the user tasks of the hosts HostIDs, for the GPIOs HostGPIOs.           *)
(***************************************************************************)
GPIO_1 == 1
\* "System.HostID=HOSTID;"
HOSTID == 1
HostIDs == HOSTID .. MaxHosts
HostGPIOs == {GPIO_0, GPIO_1}

\* The record of the first subscription of a GPIO: HostID, TaskID, Events,
\* AntiBounceTimeout and LastSuccessfullInterrupt are assigned
HostSubscription(h, m) ==
  [HostID |-> h, TaskID |-> m.SenderTaskID, Events |-> m.Message,
   AntiBounceTimeout |-> m.Specification % PullDownBit,
   LastSuccessfullInterrupt |-> 0]

\* "while((SearchPointer!=NULL) && (SearchPointer->HostID!=MessageToProcess->
\* SenderHostID) && (SearchPointer->TaskID!=MessageToProcess->SenderTaskID))":
\* the walk stops at the first record that has the host id or the task id of
\* the sender; 0 when it reaches the end of the list
SearchHostSubscription(list, h, t) ==
  LET stop(i) == ~(list[i].HostID # h /\ list[i].TaskID # t)
  IN IF \E i \in 1 .. Len(list) : stop(i)
       THEN CHOOSE i \in 1 .. Len(list) :
              stop(i) /\ \A j \in 1 .. (i - 1) : ~stop(j)
       ELSE 0

HostIrqInit ==
  /\ GPIO = [g \in HostGPIOs |-> [Initialized |-> FALSE, GPIOPullDown |-> TRUE,
                                  EventMask |-> 0, Subscriptions |-> <<>>]]
  /\ request = NoRequest
  /\ fault = FALSE
  /\ IrqInbound = <<>>
  /\ irqClock = BootTime
  /\ captured = <<>>
  /\ forwarded = <<>>

HostInit == RingInit /\ SchedInit /\ TimerInit /\ WatchdogInit /\ HostIrqInit

\* TISM_IRQHandler, RUN, "case GPIO_0: ... case GPIO_28:": the request m of
\* host h is processed.  A record added at the end of a list gets
\* "NewSubscription->TaskID=MessageToProcess->SenderHostID;" and then the
\* task id in the same field: its HostID is never assigned and holds what
\* malloc returned (garbage).  The store through the NULL
\* PreviousSearchPointer with an empty list is lost, or the processor stops.
ProcessHostRequest(h, m) ==
  LET gpio == m.MessageType
      Events == m.Message
      g == GPIO[gpio]
      i == SearchHostSubscription(g.Subscriptions, h, m.SenderTaskID)
      list(garbage) ==
        IF i # 0
          THEN IF Events = IRQ_UNSUBSCRIBE
                 THEN RemoveAt(g.Subscriptions, i)
                 ELSE UpdateSubscription(g.Subscriptions, i, Events)
        ELSE IF g.Subscriptions = <<>>
          THEN g.Subscriptions
        ELSE Append(g.Subscriptions,
                    [HostSubscription(h, m) EXCEPT !.HostID = garbage])
      \* what the HostID of an added record can hold
      Garbage == IF i = 0 /\ g.Subscriptions # <<>> THEN HostIDs ELSE {h}
  IN /\ ~fault
     /\ IF ~g.Initialized
          THEN /\ fault' = FALSE
               /\ IF Events = IRQ_UNSUBSCRIBE
                    THEN UNCHANGED GPIO
                    ELSE GPIO' =
                           [GPIO EXCEPT ![gpio] =
                              [Initialized |-> TRUE,
                               GPIOPullDown |-> m.Specification >= PullDownBit,
                               EventMask |-> m.Message,
                               Subscriptions |-> <<HostSubscription(h, m)>>]]
          ELSE /\ \E garbage \in Garbage :
                    GPIO' = [GPIO EXCEPT
                               ![gpio].Subscriptions = list(garbage),
                               ![gpio].EventMask =
                                 CalculateEventsMask(list(garbage))]
               /\ IF i = 0 /\ g.Subscriptions = <<>>
                    THEN fault' \in BOOLEAN
                    ELSE fault' = FALSE
     /\ UNCHANGED <<ringVars, schedVars, timerVars, watchVars, request, IrqInbound,
                    irqClock, captured, forwarded>>

\* A user task of a host calls TISM_IRQHandlerSubscribe and TISM_IRQHandler
\* processes the message
HostRequest ==
  \E h \in HostIDs, t \in UserTasks, gpio \in HostGPIOs, Events \in EventValues,
     GPIOPullDown \in BOOLEAN, AntiBounceTimeout \in AntiBounceValues :
    ProcessHostRequest(h, SubscribeMessage(t, gpio, Events, GPIOPullDown,
                                          AntiBounceTimeout))

IrqHostNext == HostRequest

SpecIrqHost == HostInit /\ [][IrqHostNext]_vars

(***************************************************************************)
(* Part 10: the staggered start times of TISM_Scheduler, INIT, for every   *)
(* mix of priorities of the registered tasks.  The periods are those of    *)
(* TISM.h, in microseconds.                                                *)
(***************************************************************************)
PRIORITY_HIGH_USEC == 50000
PRIORITY_NORMAL_USEC == 100000
PRIORITY_LOW_USEC == 500000

\* The three cases of "switch(System.Task[counter].TaskPriority)"
PriorityCase(p) ==
  IF p = PRIORITY_HIGH THEN PRIORITY_HIGH
  ELSE IF p = PRIORITY_NORMAL THEN PRIORITY_NORMAL
  ELSE PRIORITY_LOW

\* The tasks 1 .. n - 1 of a table that fall under a case: "Task ID 0 is the
\* scheduler itself"
TasksOfCase(table, n, p) ==
  {t \in 1 .. (n - 1) : PriorityCase(table[t].TaskPriority) = p}

\* PriorityHighOffset, PriorityNormalOffset and PriorityOtherOffset:
\* "(PriorityHigh>0?round(PRIORITY_HIGH/PriorityHigh):0)", an integer division
CaseOffset(table, n, p) ==
  LET count == Cardinality(TasksOfCase(table, n, p))
      usec == IF p = PRIORITY_HIGH THEN PRIORITY_HIGH_USEC
              ELSE IF p = PRIORITY_NORMAL THEN PRIORITY_NORMAL_USEC
              ELSE PRIORITY_LOW_USEC
  IN IF count > 0 THEN usec \div count ELSE 0

\* The TaskWakeUpTimer the second loop assigns to task t
StaggeredWakeUp(table, n, t, Start) ==
  LET p == PriorityCase(table[t].TaskPriority)
      counter == Cardinality({u \in TasksOfCase(table, n, p) : u < t})
      shift == IF p = PRIORITY_HIGH THEN 0
               ELSE IF p = PRIORITY_NORMAL
                 THEN CaseOffset(table, n, PRIORITY_HIGH) \div 2
               ELSE CaseOffset(table, n, PRIORITY_NORMAL) \div 2
  IN Start + shift + counter * CaseOffset(table, n, p)

\* The tables TISM_RegisterTask can have built: the scheduler's entry and
\* 1 .. MaxStaggerTasks tasks of any priorities
StaggerTables ==
  UNION {{[i \in 0 .. (MAX_TASKS - 1) |->
             IF i = 0 THEN NewTask(0, PRIORITY_HIGH)
             ELSE IF i <= k THEN NewTask(i, f[i])
             ELSE NoEntry] : f \in [1 .. k -> Priorities]}
         : k \in 1 .. MaxStaggerTasks}

StaggerInit ==
  /\ RingInit /\ TimerInit /\ WatchdogInit /\ IrqInit
  /\ \E table \in StaggerTables :
       SchedTable({}, Cardinality({i \in DOMAIN table : table[i] # NoEntry}),
                  table)

\* TISM_Scheduler, "if(System.State==INIT)": the start times are assigned
StaggerStart ==
  /\ State = INIT
  /\ call = NoCall
  /\ LET n == SystemNumberOfTasks
         Start == now + STARTUP_DELAY * 1000
     IN SystemTask' =
          [i \in DOMAIN SystemTask |->
             IF 1 <= i /\ i < n
               THEN [SystemTask[i] EXCEPT
                       !.TaskWakeUpTimer = StaggeredWakeUp(SystemTask, n, i, Start)]
               ELSE SystemTask[i]]
  /\ call' = [op |-> "TISM_Scheduler", state |-> State]
  /\ UNCHANGED <<ringVars, timerVars, irqVars, watchVars, State, RunPointer,
               TaskState, TaskSleeping, TaskWakeUpTimer,
               OutboundMessageQueue, InboundMessageQueue,
               IRQHandlerInboundQueue, TaskReceivedMessage, Subscriptions,
               now, pc, ret, bypass, bret, RunPriority, PreviousRunPointer,
               CurrentRunPointer, TaskCounter, ThisTask, rv, sends, irqs,
               warned, stopRuns, otherRan, completed, ahead, considered,
               inCycle, initRv, arrived, started, gap, SystemReadyPort,
               SystemNumberOfTasks, watched, TaskOutboundMessageQueue,
               stopOrder>>

StaggerNext == StaggerStart

SpecStagger == StaggerInit /\ [][StaggerNext]_vars

IsPrefix(s, t) == Len(s) <= Len(t) /\ \A i \in 1 .. Len(s) : s[i] = t[i]

\* C2: with one producer and one consumer running concurrently, the records
\* obtained by successful Read + Delete are, in order, the records the
\* producer stored: every popped record is complete (both fields of one
\* write) and the popped sequence is a prefix of the written sequence.
C2_RingFifo ==
  /\ \A i \in 1 .. Len(popped) : popped[i].id = popped[i].payload
  /\ IsPrefix([i \in 1 .. Len(popped) |-> popped[i].id], written)

\* C3: a write that finds no free slot reports failure and changes neither
\* Head, Tail nor any stored record; and no write ever stores into a slot
\* that holds a record the consumer has not yet passed.
C3_NoOverwrite ==
  /\ [](~overwrote)
  /\ [][(ppc = "idle" /\ SlotsAvailable(BufHead, BufTail) = 0
          /\ nextVal' # nextVal)
        => (lastWrite' = "full" /\ BufHead' = BufHead /\ BufTail' = BufTail
            /\ Message' = Message /\ ppc' = "idle")]_vars

\* A write was refused while unread records were stored.
C3_Witness == lastWrite = "full" /\ unread # {}

(***************************************************************************)
(* The claims about the scheduler                                          *)
(***************************************************************************)

\* C1: for every task id t, at most one core is inside the task function
\* of t at any instant
C1_MutualExclusion ==
  \A t \in TaskIDs : ~(Executing(CORE0) = t /\ Executing(CORE1) = t)

\* ghost: msg is in the mailbox of task t
InMailbox(msg, t) ==
  \E i \in 1 .. Len(InboundMessageQueue[t]) : InboundMessageQueue[t][i] = msg
\* The bypass of Postman and TaskManager on core c has ended
BypassDone(c) == pc[c] = "deadline"
Delivered ==
  /\ InMailbox(TrackedMsg, TrackedMsg.RecipientTaskID) \/ TrackedMsg \in warned
  /\ ~TaskSleeping[TrackedMsg.RecipientTaskID]

\* C4 as stated: after the next invocation of Postman on core c followed by
\* TaskManager, the message a task enqueued on core c for a valid task that
\* is awake is in the mailbox of that task (or Postman has warned that it
\* could not be delivered) and the task is not sleeping
C4_Delivered == \A c \in Cores : BypassDone(c) => Delivered

\* C4 amended: the same, provided that Postman has to handle fewer than
\* MAX_MESSAGES messages before this one in that invocation (its own mailbox,
\* the queue of core 0, then the queue of core 1)
C4_DeliveredWithinLimit ==
  \A c \in Cores : (BypassDone(c) /\ ahead < MAX_MESSAGES) => Delivered
C4_Witness ==
  \E c \in Cores : /\ BypassDone(c)
                   /\ ahead = MAX_MESSAGES - 1
                   /\ InMailbox(TrackedMsg, TrackedMsg.RecipientTaskID)

\* C5: when the scheduler has finished the deadline handling of a task it
\* ran in the Run phase, the wake-up deadline of the task is strictly
\* greater than the timestamp at which the run completed
C5_DeadlineBeyondCompletion ==
  [][\A c \in Cores :
       (pc[c] = "deadline" /\ pc'[c] # "deadline")
         => TaskWakeUpTimer'[RunPointer[c]] > completed[c]]_vars

\* The number of times a task of priority p passes the priority filter in
\* one priority cycle
PerCycle(p) ==
  IF p <= PRIORITY_HIGH THEN 3 ELSE IF p <= PRIORITY_NORMAL THEN 2 ELSE 1

\* C6: on each core, in a complete priority cycle (a PRIORITY_HIGH, a
\* PRIORITY_NORMAL and a PRIORITY_LOW run through the list) a task of high
\* priority passes the priority filter 3 times, one of normal priority 2
\* times and one of low priority once, whatever ran, collided or was bypassed
C6_PriorityCycle ==
  \A c \in Cores :
    inCycle[c] = "done" =>
      \A t \in 1 .. (NumberOfTasks - 1) :
        considered[c][t] = PerCycle(TaskPriority(t))
C6_Witness ==
  \E c \in Cores : /\ inCycle[c] = "done"
                   /\ considered[c][FirstUserTask] = 3
                   /\ considered[c][TISM_PostmanTaskID] = 1

\* C7: when both cores have selected the same due, awake task, only one of
\* them executes it: a core does not enter the task after the other core
\* has run it since this core selected it, at the same timestamp
C7_OneExecution ==
  \A c \in Cores : ~(pc[c] = "in_task" /\ otherRan[c])

\* C8: the collision back-off always ends: a core is never in the loop of
\* TISM_SchedulerRunTask on the task the run pointer of the other core
\* stays on because the scheduler of that core has returned
C8_BackoffEnds ==
  \A c \in Cores :
    ~(/\ pc[OtherCore(c)] = "done"
      /\ InRunTask(c)
      /\ Target(c) = RunPointer[OtherCore(c)])

\* C9: after a task has returned an error in the Run phase the system state
\* becomes DOWN and the schedulers of both cores return: core 1 is never
\* left waiting for the end of STOP after the scheduler of core 0 returned
C9_BothReturn ==
  ~(pc[CORE0] = "done" /\ pc[CORE1] = "stop_wait" /\ State = STOP)

\* C10: whenever the system state is DOWN, every registered task has been
\* invoked exactly once with its task state STOP
C10_StopPassDone ==
  State = DOWN => \A t \in 1 .. (NumberOfTasks - 1) : stopRuns[t] = 1

\* C11: the global state is RUN only if the INIT invocation of every task
\* returned OK; once an INIT invocation has returned a non-OK value the state
\* is STOP (or, after the Stop pass, DOWN) and never RUN
C11_RunOnlyAfterInitOk ==
  /\ State = RUN => \A t \in 1 .. (NumberOfTasks - 1) : initRv[t] = "ok"
  /\ (\E t \in TaskIDs : initRv[t] = "fail") => State \in {STOP, DOWN}

\* A user task failed to initialise and the scheduler of core 0 has gone
\* through the rest of INIT and the Stop pass and has returned
C11_Witness ==
  /\ initRv[FirstUserTask] = "fail"
  /\ initRv[FirstUserTask + 1] = "ok"
  /\ pc[CORE0] = "done"

\* C12: the global state only moves forward along INIT, RUN, STOP, DOWN
\* (the values 3, 2, 1, 0): no step takes it to an earlier state, and once it
\* is DOWN no step changes it
C12_StateForward == [][State' <= State]_vars

\* Core c is inside Postman and Postman returns in this step
PostmanReturns(c) ==
  /\ pc[c] = "in_task"
  /\ ThisTask[c].TaskID = TISM_PostmanTaskID
  /\ pc'[c] # "in_task"

\* C13: when Postman finds the mailbox of the recipient of a record full, it
\* logs a warning and removes the record from the outbound queue without
\* delivering it, the mailbox is left as it was, Postman goes on with the
\* records behind it, its invocation returns OK and the global state stays RUN
C13_FullMailboxDrop ==
  [][\A c \in Cores :
       (/\ PostmanReturns(c)
        /\ ~(SlotsAvailable(Len(InboundMessageQueue[TrackedMsg.RecipientTaskID]), 0) > 0))
       => /\ TrackedMsg \in warned'
          /\ OutboundMessageQueue'[c] = <<>>
          /\ InboundMessageQueue'[TrackedMsg.RecipientTaskID]
               = InboundMessageQueue[TrackedMsg.RecipientTaskID]
          /\ \A i \in 1 .. Len(OutboundMessageQueue[c]) :
               OutboundMessageQueue[c][i] # TrackedMsg =>
                 \E j \in 1 .. Len(InboundMessageQueue'[FirstUserTask]) :
                   InboundMessageQueue'[FirstUserTask][j] = OutboundMessageQueue[c][i]
          /\ rv'[c] = OK
          /\ State' = RUN
          /\ pc'[c] = "bypass"]_vars

\* Postman has refused TrackedMsg and has delivered the record behind it
C13_Witness ==
  \E c \in Cores :
    /\ pc[c] = "bypass"
    /\ TrackedMsg \in warned
    /\ Len(InboundMessageQueue[TrackedMsg.RecipientTaskID]) = MAX_MESSAGES - 1
    /\ ~InMailbox(TrackedMsg, TrackedMsg.RecipientTaskID)
    /\ InMailbox(AfterMsg, FirstUserTask)

\* C14: a record of an outbound queue whose recipient is task id 255 is
\* dropped by Postman with a warning: it is removed from the queue and
\* written to no mailbox, a warning is logged for it, and nothing else
\* (TISM_PostmanData.TaskReceivedMessage) is changed on its behalf
C14_StrayDropped ==
  [][\A c \in Cores :
       (PostmanReturns(c)
        /\ \E i \in 1 .. Len(OutboundMessageQueue[c]) :
             OutboundMessageQueue[c][i] = StrayMsg)
       => /\ OutboundMessageQueue'[c] = <<>>
          /\ \A t \in TaskIDs : ~InMailbox(StrayMsg, t)'
          /\ StrayMsg \in warned'
          /\ NoTask \notin TaskReceivedMessage']_vars

\* C15: the records a sender enqueued in the outbound queue of a core for
\* one recipient, as far as they are delivered, arrive in the mailbox of the
\* recipient in the order in which they were enqueued
C15_DeliveredInOrder ==
  \A i, j \in 1 .. Len(arrived) : i < j => arrived[i] <= arrived[j]

\* C16: a buffer of MAX_MESSAGES slots never holds more than
\* MAX_MESSAGES - 1 unread records, and a write that is attempted while it
\* holds MAX_MESSAGES - 1 unread records is refused
C16_CapacityMinusOne ==
  /\ [](Cardinality(unread) <= MAX_MESSAGES - 1)
  /\ [][(ppc = "idle" /\ Cardinality(unread) = MAX_MESSAGES - 1
          /\ (ppc' # ppc \/ nextVal' # nextVal))
        => (lastWrite' = "full" /\ ppc' = "idle" /\ unread' = unread)]_vars

\* The buffer holds MAX_MESSAGES - 1 unread records and the write that
\* followed was refused
C16_Witness ==
  /\ Cardinality(unread) = MAX_MESSAGES - 1
  /\ lastWrite = "full"
  /\ Len(written) = MAX_MESSAGES - 1

\* C17: when the scan finds a repeating timer expired it sends its
\* notification and sets the deadline of the entry one interval later: the
\* new deadline minus the old one is the interval of the entry, in
\* microseconds (TimerIntervalMsec times 1000), for every interval of 32 bits.
C17_RepeatingDeadline ==
  \A p \in 1 .. Len(examined) :
    LET x == examined[p]
        d == x.after - x.entry.NextTimerEventUsec
    IN (x.entry.RepetitiveTimer /\ x.entry.NextTimerEventUsec < scanned.at)
         => /\ x.sent
            /\ d % UsecPerMsec = 0
            /\ d \div UsecPerMsec = x.entry.TimerIntervalMsec

\* C18: a scan that finds a non-repeating timer expired sends its
\* notification once and removes that entry; the scan looks at every entry
\* the list held when it started, and every other entry is in the list
\* afterwards, in the same order.
C18_OneShotRemovedOthersKept ==
  LET L == scanned.list
      OneShot(e) == ~e.RepetitiveTimer /\ e.NextTimerEventUsec < scanned.at
      Kept == SelectSeq(L, LAMBDA e : ~OneShot(e))
  IN /\ Len(examined) = Len(L)
     /\ \A p \in 1 .. Len(L) :
          p <= Len(examined) =>
            /\ examined[p].entry = L[p]
            /\ OneShot(L[p]) => examined[p].sent
     /\ Len(Entries) = Len(Kept)
     /\ \A k \in 1 .. Len(Kept) :
          k <= Len(Entries) =>
            [Entries[k] EXCEPT !.NextTimerEventUsec = 0]
              = [Kept[k] EXCEPT !.NextTimerEventUsec = 0]

\* Number of notifications in the sequence that carry the sequence number
Carrying(notes, s) == Len(SelectSeq(notes, LAMBDA n : n.Message = s))

\* C19: after the timer task has processed a cancellation by sequence
\* number s, no entry of the list has sequence number s, and the task writes
\* no further notification that carries s.
C19_CancelledStaysSilent ==
  /\ [](\A s \in cancelled :
          \A i \in 1 .. Len(Entries) : Entries[i].SequenceNr # s)
  /\ [][\A s \in cancelled' :
          Carrying(notified', s) = Carrying(notified, s)]_vars

\* C20: when TISM_IRQHandler processes a subscription (events other than
\* IRQ_UNSUBSCRIBE) of a task that has a record in the list of the GPIO
\* already, the list afterwards is the list before with the events of that
\* record replaced: as many records, in the same order, nothing else changed.
C20_ResubscribeInPlace ==
  [][LET m == request'
         gpio == m.MessageType
         L == GPIO[gpio].Subscriptions
         i == SearchSubscription(L, m.SenderTaskID)
     IN (i # 0 /\ m.Message # IRQ_UNSUBSCRIBE)
          => /\ Len(GPIO'[gpio].Subscriptions) = Len(L)
             /\ GPIO'[gpio].Subscriptions = [L EXCEPT ![i].Events = m.Message]
             /\ \A g \in GPIOs \ {gpio} : GPIO'[g] = GPIO[g]]_vars

\* A task that subscribed before another one has subscribed again, with a
\* request that is not the one that initialized the GPIO (it asks for the
\* pull-down the GPIO does not have): its record is still the first of two
\* and has the events of the request.
C20_Witness ==
  \E gpio \in GPIOs :
    LET L == GPIO[gpio].Subscriptions
    IN /\ request.MessageType = gpio
       /\ request.Message = GPIO_IRQ_EDGE_RISE
       /\ Len(L) = 2
       /\ L[1].TaskID = request.SenderTaskID
       /\ L[1].Events = GPIO_IRQ_EDGE_RISE
       /\ request.Specification >= PullDownBit
       /\ ~GPIO[gpio].GPIOPullDown
       /\ L[2].Events = GPIO_IRQ_EDGE_FALL
       /\ GPIO[gpio].EventMask = GPIO_IRQ_EDGE_FALL + GPIO_IRQ_EDGE_RISE

\* The interrupt with number n was forwarded to task t
ForwardedTo(t, n) ==
  \E k \in 1 .. Len(forwarded) :
    forwarded[k].of = n /\ forwarded[k].msg.RecipientTaskID = t

\* Number of messages that forward interrupt n to task t
TimesForwarded(t, n) ==
  Cardinality({k \in 1 .. Len(forwarded) :
                 forwarded[k].of = n /\ forwarded[k].msg.RecipientTaskID = t})

\* C21: when every captured interrupt has been processed, for a
\* subscription with a window and two interrupts captured at most the window
\* apart, the first of which is not within the window of an earlier one
\* (the very first interrupt is such an interrupt): the first was forwarded to
\* the subscriber, once, and the second was not.
C21_FirstOfTwoForwarded ==
  IrqInbound = <<>> =>
    \A p \in 1 .. Len(GPIO[GPIO_0].Subscriptions) :
      LET sub == GPIO[GPIO_0].Subscriptions[p]
      IN \A i, j \in 1 .. Len(captured) :
           (/\ sub.AntiBounceTimeout > 0
            /\ i < j
            /\ captured[j] - captured[i] <= sub.AntiBounceTimeout
            /\ \A k \in 1 .. (i - 1) :
                 captured[i] - captured[k] > sub.AntiBounceTimeout)
             => /\ TimesForwarded(sub.TaskID, i) = 1
                /\ ~ForwardedTo(sub.TaskID, j)

\* A request for TaskManager is in an outbound queue
RequestQueued ==
  \E d \in Cores : \E i \in 1 .. Len(OutboundMessageQueue[d]) :
    OutboundMessageQueue[d][i].RecipientTaskID = TISM_TaskManagerTaskID

\* The last call asked for the priority, the sleep state or the wake-up time
\* of a system task, and a task that is not a system task made it
GuardedCall ==
  /\ call.op = "SetTaskAttribute"
  /\ call.attribute \in GuardedAttributes
  /\ IsValidTaskID(call.target) /\ IsSystemTask(call.target)
  /\ ~IsSystemTask(call.caller)

\* C22: a call of TISM_TaskManagerSetTaskAttribute by a task that is not a
\* system task, for the priority, the sleep state or the wake-up time of a
\* system task, returns ERR_INVALID_OPERATION and writes no message to
\* TaskManager.
C22_SystemTaskRefused ==
  GuardedCall => call.rv = ERR_INVALID_OPERATION /\ ~RequestQueued

\* Such a call has been made, for the wake-up time of Postman: it left the
\* message for the event logger in the queue
C22_Witness ==
  /\ GuardedCall
  /\ call.attribute = "SET_TASK_WAKEUPTIME"
  /\ call.target = TISM_PostmanTaskID
  /\ call.rv = ERR_INVALID_OPERATION
  /\ OutboundMessageQueue[call.core] # <<>>
  /\ OutboundMessageQueue[call.core][1].RecipientTaskID = TISM_EventLoggerTaskID

\* The requests to dedicate the system TaskManager processed in its last
\* invocation
DedicateSteps ==
  IF call.op = "TaskManager"
    THEN {call.steps[i] : i \in {j \in DOMAIN call.steps :
                                   call.steps[j].m.MessageType = "DEDICATE_TO_TASK"}}
    ELSE {}

\* C23: after TaskManager has processed a request to dedicate the system to
\* a user task id (the Specification of the record, which is the TargetTaskID
\* of the call) that was awake, every other user task is sleeping and id is
\* still awake; when id was sleeping, no sleeping flag has changed.
C23_DedicateTo ==
  \A s \in DedicateSteps :
    LET id == s.m.Specification
    IN IF ~s.before[id]
         THEN /\ ~s.after[id]
              /\ \A t \in UserTasks \ {id} : s.after[t]
         ELSE s.after = s.before

\* C24: two successive starts of a task, with no change of its sleeping flag
\* or wake-up time by a task function in between, are at least the task's
\* priority apart.
C24_PriorityApart ==
  \A t \in TaskIDs : gap[t] # Unset => gap[t] >= TaskPriority(t)

\* The invocations of a complete STOP pass: the tasks other than Postman and
\* the event logger from the highest id down, each with task state STOP,
\* then Postman and the event logger, each as it was and then with STOP
RECURSIVE StopsFrom(_)
StopsFrom(t) ==
  IF t > 1
    THEN (IF t # TISM_EventLoggerTaskID /\ t # TISM_PostmanTaskID
            THEN <<[TaskID |-> t, TaskState |-> STOP]>> ELSE <<>>)
           \o StopsFrom(t - 1)
    ELSE <<>>
FullStopPass ==
  StopsFrom(NumberOfTasks - 1)
    \o <<[TaskID |-> TISM_PostmanTaskID, TaskState |-> RUN],
         [TaskID |-> TISM_PostmanTaskID, TaskState |-> STOP],
         [TaskID |-> TISM_EventLoggerTaskID, TaskState |-> RUN],
         [TaskID |-> TISM_EventLoggerTaskID, TaskState |-> STOP]>>

\* C25: the STOP pass of core 0 invokes the tasks in the order of
\* FullStopPass, and once it has begun the system state is not DOWN before
\* it is complete.
C25_StopOrder ==
  /\ IsPrefix(stopOrder, FullStopPass)
  /\ State = DOWN /\ stopOrder # <<>> => stopOrder = FullStopPass

\* C26: a call of TISM_RegisterTask made when the system state is not INIT
\* is rejected and leaves System.Task[] and System.NumberOfTasks as they
\* were.
C26_RegisterOnlyInInit ==
  call.op = "RegisterTask" /\ call.state # INIT =>
    /\ call.rv # OK
    /\ SystemTask = call.table
    /\ SystemNumberOfTasks = call.count

\* C27 as stated: a registration that succeeds returns the id of the task
C27_ReturnsId ==
  call.op = "RegisterTask" /\ call.count < MAX_TASKS => call.rv = call.count

\* C27: from the empty table a registration returns OK and writes the entry
\* of the next id, with the other entries as they were, until the table
\* holds MAX_TASKS tasks; then it returns ERR_TOO_MANY_TASKS and leaves the
\* table and the number of tasks as they were.
C27_RegisterUpToMax ==
  call.op = "RegisterTask" =>
    IF call.count < MAX_TASKS
      THEN /\ call.rv = OK
           /\ SystemNumberOfTasks = call.count + 1
           /\ SystemTask[call.count] = NewTask(call.count, call.priority)
           /\ \A i \in DOMAIN SystemTask \ {call.count} :
                SystemTask[i] = call.table[i]
      ELSE /\ call.rv = ERR_TOO_MANY_TASKS
           /\ SystemNumberOfTasks = call.count
           /\ SystemTask = call.table
C27_Witness ==
  /\ call.op = "RegisterTask"
  /\ call.count = MAX_TASKS
  /\ call.rv = ERR_TOO_MANY_TASKS
  /\ \A i \in DOMAIN SystemTask : SystemTask[i].TaskID = i

\* C28: whenever the system state is RUN the output SYSTEM_READY_PORT is
\* high, and whenever the system state is DOWN it is low.
C28_ReadyPort ==
  /\ State = RUN => SystemReadyPort
  /\ State = DOWN => ~SystemReadyPort

\* Nothing is under way: the outbound queues and the mailbox of TaskManager
\* are empty and no task function is executing
Quiet ==
  /\ \A c \in Cores : OutboundMessageQueue[c] = <<>>
  /\ InboundMessageQueue[TISM_TaskManagerTaskID] = <<>>
  /\ \A c \in Cores : ThisTask[c] = NoThisTask

\* C29: whenever nothing is under way, every task with an unread message in
\* its mailbox is awake.
C29_NotStranded ==
  Quiet => \A t \in TaskIDs : InboundMessageQueue[t] # <<>> => ~TaskSleeping[t]

\* A timer with sequence number nr is in the hands of the timer service, in a
\* TISM_SET_TIMER message of its inbound queue or in its list, and its
\* deadline has passed
DuePending(nr) ==
  \/ \E i \in 1 .. Len(TimerInbox) :
       /\ TimerInbox[i].MessageType = "TISM_SET_TIMER"
       /\ TimerInbox[i].Message.SequenceNr = nr
       /\ TimerInbox[i].Message.NextTimerEventUsec < time_us_64
  \/ \E i \in 1 .. Len(Entries) :
       /\ Entries[i].SequenceNr = nr
       /\ Entries[i].NextTimerEventUsec < time_us_64

\* A notification carries the sequence number
Notified(nr) == Carrying(notified, nr) > 0

\* The wake-up time of the timer task is within the time the model follows,
\* or it is the "0xFFFFFFFFFFFFFFFF" of a scan that found nothing pending
WithinClock == TimerWakeUp <= LiveClock \/ TimerWakeUp = NoTimerEvent

\* C30: a timer the service has accepted and that is not cancelled is
\* notified in the end: from a state where its deadline has passed while the
\* service holds it, the service runs again and the notification with its
\* sequence number is written, or the timer has left the service by a
\* cancellation (or the wake-up time lies beyond the time that is followed).
C30_EventuallyNotified ==
  \A nr \in 1 .. MaxSets :
    (DuePending(nr) /\ WithinClock)
      ~> (Notified(nr) \/ ~DuePending(nr) \/ ~WithinClock)

\* C31: in every task invocation the outbound-queue reference (and the
\* running-core field, written and copied with it) handed to the task is
\* that of the core that executes it.
C31_OwnQueueHanded ==
  \A c \in Cores :
    Executing(c) # NoTask => ThisTask[c].OutboundMessageQueue = c

\* Every callback has returned and TISM_IRQHandler has emptied the queue
Drained ==
  /\ \A c \in Cores : ppc[c].at = "idle"
  /\ cpc = "idle"
  /\ MessagesWaiting(BufHead, BufTail) = 0

\* Number of popped records that are the complete record v
TimesRead(v) ==
  Cardinality({i \in 1 .. Len(popped) : popped[i] = [id |-> v, payload |-> v]})

\* C32: writes to the interrupt queue by callbacks that interleave never
\* corrupt it: no write stores into a slot that holds an unread record, and
\* once the queue is drained every write that reported success has been read
\* exactly once, and nothing else has been read.
C32_CallbacksKeepQueue ==
  /\ ~overwrote
  /\ Drained => /\ \A i \in 1 .. Len(written) : TimesRead(written[i]) = 1
                /\ Len(popped) = Len(written)

\* Core c is in the bypass that follows a task run which left messages in
\* its outbound queue, and leaves the loop of TISM_SchedulerRunTask for
\* Postman or TaskManager in this step
BypassDecides(c) ==
  /\ pc[c] = "rt_loop"
  /\ ret[c] = "bypass"
  /\ bret[c] = "deadline"
  /\ pc'[c] \notin {"rt_loop", "rt_wait"}

\* C33: when a task run on core c has left the outbound queue of c non-empty
\* in state RUN, core c executes Postman and then TaskManager whatever their
\* sleeping flag, priority and wake-up time: while the state is RUN, each
\* TISM_SchedulerRunTask of the bypass calls the task function.
C33_BypassExecutes ==
  [][\A c \in Cores :
       (BypassDecides(c) /\ State = RUN)
         => (pc'[c] = "in_task" /\ ThisTask'[c].TaskID = RunPointer[c])]_vars

\* The smallest NextTimerEventUsec of a list that is not empty
SmallestDeadline(list) ==
  CHOOSE d \in {list[i].NextTimerEventUsec : i \in 1 .. Len(list)} :
    \A i \in 1 .. Len(list) : d <= list[i].NextTimerEventUsec

\* C34: after a run of the timer service that ends with entries in the list,
\* the wake-up time of the service is the smallest deadline of the entries
\* in the list; after a run that ends with an empty list the service is
\* asleep.
C34_WakeUpAtSmallest ==
  [][TimerRun =>
       IF Entries' # <<>>
         THEN TimerWakeUp' = SmallestDeadline(Entries')
         ELSE TimerSleeping']_vars

\* The sequence numbers of the entries TISM_SoftwareTimerSet has created and
\* that the service holds, in its inbound queue or in its list
SequenceNrsSet ==
  LET sets == SelectSeq(TimerInbox, LAMBDA m : m.MessageType = "TISM_SET_TIMER")
  IN [i \in 1 .. Len(sets) |-> sets[i].Message.SequenceNr]
       \o [i \in 1 .. Len(Entries) |-> Entries[i].SequenceNr]

\* C35: the sequence numbers TISM_SoftwareTimerSet gives out are pairwise
\* distinct over all calls, those of tasks running at the same time on the
\* two cores included: no two entries it has created carry the same number.
C35_DistinctSequenceNrs ==
  \A i, j \in 1 .. Len(SequenceNrsSet) :
    i # j => SequenceNrsSet[i] # SequenceNrsSet[j]

\* C36: a call of TISM_TaskManagerSetTaskAttribute whose request cannot be
\* enqueued because the outbound queue of the core is full reports the
\* failure to the caller; a call that reports success (OK) has enqueued
\* exactly one record.
C36_FullQueueReported ==
  call.op = "SetTaskAttribute" => (call.rv = OK <=> call.queued = 1)

\* C37: after every subscription of a GPIO has been removed, a subscribe
\* request for that GPIO is registered: when TISM_IRQHandler has processed
\* it, the task is in the list of the GPIO with the events it asked for (and
\* the processor has not stopped with a fault).
C37_SubscribeAfterEmpty ==
  [][LET m == request'
         gpio == m.MessageType
     IN (/\ GPIO[gpio].Initialized
         /\ GPIO[gpio].Subscriptions = <<>>
         /\ m.Message # IRQ_UNSUBSCRIBE)
          => /\ ~fault'
             /\ \E i \in 1 .. Len(GPIO'[gpio].Subscriptions) :
                  /\ GPIO'[gpio].Subscriptions[i].TaskID = m.SenderTaskID
                  /\ GPIO'[gpio].Subscriptions[i].Events = m.Message]_vars

\* The records of a list that do not carry the task id t
OtherSubscribers(list, t) == SelectSeq(list, LAMBDA r : r.TaskID # t)

\* C38: processing a subscribe, update or unsubscribe request of task t for
\* a GPIO leaves the records (task id, events, anti-bounce window) of all
\* other subscribers of that GPIO and the lists of the other GPIOs as they
\* were, and a record that is added carries the task id t.
C38_OnlyOwnEntry ==
  [][\A h \in HostIDs, t \in UserTasks, gpio \in HostGPIOs,
        Events \in EventValues, GPIOPullDown \in BOOLEAN,
        AntiBounceTimeout \in AntiBounceValues :
       ProcessHostRequest(h, SubscribeMessage(t, gpio, Events, GPIOPullDown,
                                             AntiBounceTimeout))
         => /\ OtherSubscribers(GPIO'[gpio].Subscriptions, t)
                 = OtherSubscribers(GPIO[gpio].Subscriptions, t)
            /\ \A o \in HostGPIOs \ {gpio} :
                 GPIO'[o].Subscriptions = GPIO[o].Subscriptions]_vars

\* The watchdog has logged an error that names task t
Warned(t) == \E e \in WatchdogLog : e.task = t

\* C39: a task that was pinged by the watchdog and never sends the matching
\* echo is named in an error of the watchdog at some later check cycle.
C39_SilentTaskWarned ==
  \A t \in WatchedTasks : (t \in pinged /\ t \in Silent) ~> Warned(t)

\* The first task of a case in the table, NoTask when there is none
FirstOfCase(p) ==
  LET tasks == TasksOfCase(SystemTask, SystemNumberOfTasks, p)
  IN IF tasks = {} THEN NoTask
     ELSE CHOOSE t \in tasks : \A u \in tasks : t <= u

\* C40: after the start times have been staggered, the first wake-up times
\* of the first high-priority task, the first normal-priority task and the
\* first task of the remaining priorities differ pairwise, whatever the
\* priorities of the registered tasks are and also when a case has no task.
C40_FirstDeadlinesDiffer ==
  call.op = "TISM_Scheduler"
    => \A p, q \in Priorities :
         (/\ p # q
          /\ FirstOfCase(p) # NoTask
          /\ FirstOfCase(q) # NoTask)
           => SystemTask[FirstOfCase(p)].TaskWakeUpTimer
                # SystemTask[FirstOfCase(q)].TaskWakeUpTimer

====
